---- MODULE Spec2Model ----
(***************************************************************************)
(* Verification model of the commit-validator "rate-my-mr" pipeline.       *)
(*                                                                         *)
(*   SpecDisc  gitlab.update_discussion run by the per-MR processes        *)
(*             against the discussions of one merge request.               *)
(*   SpecSend  rate_my_mr.send_request / llm_adapter.send_request with     *)
(*             the JWT session-token cache and the retry loop.             *)
(*   SpecMR    rate_my_mr_gitlab.handle_mr from the analysis pipeline on,  *)
(*             with the exception handler of main around it.               *)
(*                                                                         *)
(* Strings are sequences of characters, so that header + body is a real    *)
(* concatenation and str.startswith a real prefix test.                    *)
(***************************************************************************)
EXTENDS Integers, Sequences, FiniteSets, TLC

\* ------------------------------------------------------------------------
\* Bounds
\* ------------------------------------------------------------------------
MaxInitDisc == 2
MaxRuns == 2
MaxCalls == 2
MaxRetriesArg == 3
MaxCodeLen == 5
MaxDiffLines == 3
MaxLocRuns == 2

\* ------------------------------------------------------------------------
\* Strings
\* ------------------------------------------------------------------------
HEADER == <<"H">>

Reports == {<<"a">>, <<"b">>}

StartsWith(s, h) == Len(s) >= Len(h) /\ SubSeq(s, 1, Len(h)) = h

\* ------------------------------------------------------------------------
\* The remote discussions of the MR (GitLab side)
\* ------------------------------------------------------------------------
Proc == {"p1", "p2"}

Note(b, r) == [body |-> b, resolved |-> r]

\* the threads an MR can carry before a run: a foreign thread, an owned
\* unresolved thread (as create_note leaves it; runs resolve it), a foreign
\* thread with a resolved sentinel-bearing reply
InitDiscussion ==
  { [notes |-> <<Note(<<"x">>, FALSE)>>],
    [notes |-> <<Note(HEADER \o <<"a">>, FALSE)>>],
    [notes |-> <<Note(<<"x">>, FALSE), Note(HEADER \o <<"a">>, TRUE)>>] }

InitRemote ==
  UNION {[1..k -> InitDiscussion] : k \in 0..MaxInitDisc}

VARIABLES remote, remote0, pc, discussions, idx, body, must_not_be_resolved, found_note,
          runs, muts, prevCall, intr, ops

discVars == <<remote, remote0, pc, discussions, idx, body, must_not_be_resolved,
              found_note, runs, muts, prevCall, intr, ops>>

\* send_request: environment, adapter singleton, token cache, the call in
\* progress and what the upstream services saw
VARIABLES bfa_host, bfa_token_key, api_timeout_ok, project_mr,
          adapter_instance, session_token, token_project_mr,
          spc, mode, attempt, max_retries, token, payload_ok, posts, sleeps,
          resps, result, calls, tokenLog, issued, sentTokens, last401, rejectedReuse,
          keyChanged, seen401, callTokenCalls, after401, issuedFor, crossApplied

sendVars == <<bfa_host, bfa_token_key, api_timeout_ok, project_mr,
              adapter_instance, session_token, token_project_mr,
              spc, mode, attempt, max_retries, token, payload_ok, posts,
              sleeps, resps, result, calls, tokenLog, issued, sentTokens, last401,
              rejectedReuse, keyChanged, seen401, callTokenCalls, after401,
              issuedFor, crossApplied>>

\* handle_mr: position, configuration, the results of the checks, the score
\* and what was posted to the MR
VARIABLES hpc, features, summary_success, summary_content, review_success,
          review_content, loc_data, lint_data, cc_data, ss_data, rating_score,
          mr_must_not_be_resolved, report, ran, abortedAt, pass_score,
          postFailed, measured

mrVars == <<hpc, features, summary_success, summary_content, review_success,
            review_content, loc_data, lint_data, cc_data, ss_data,
            rating_score, mr_must_not_be_resolved, report, ran, abortedAt,
            pass_score, postFailed, measured>>

\* CalRating(data).cal_rating() and cal_rating(net_loc, lint_disable_count):
\* the data, the position in the loop over its items, the running and the
\* final rating
VARIABLES cr_pc, cr_data, cr_todo, effective_rating, cr_score,
          simple_pc, simple_args, simple_score

rateVars == <<cr_pc, cr_data, cr_todo, effective_rating, cr_score,
              simple_pc, simple_args, simple_score>>

\* two runs side by side: handle_mr with a check enabled and disabled,
\* cal_rating and CalRating on two inputs
VARIABLES cmp_pc, cmp_in, cmp_out

cmpVars == <<cmp_pc, cmp_in, cmp_out>>

\* CyclomaticComplexityCalculator(diff_file): the diff file, what analyze()
\* returned or raised, and _calculate_cc on one function body
VARIABLES cc_pc, cc_readable, cc_diff, cc_ret, cc_code, cc_value

ccVars == <<cc_pc, cc_readable, cc_diff, cc_ret, cc_code, cc_value>>

\* LOCCalculator(diff_file): the diff file and what each calculate_loc()
\* call returned
VARIABLES loc_readable, loc_diff, loc_rets

locVars == <<loc_readable, loc_diff, loc_rets>>

\* SecurityScanner(target): the diff file, what
\* extract_added_code_from_diff() and analyze() returned, and what the
\* bandit process did
VARIABLES ss_pc, ss_file, ss_diff, ss_ext, ss_target, ss_bandit, ss_ret

ssVars == <<ss_pc, ss_file, ss_diff, ss_ext, ss_target, ss_bandit, ss_ret>>

\* generate_lint_disable_report(diff_file): the diff file, what the LLM
\* answered and what the function returned
VARIABLES lint_pc, lint_diff, lint_answer, lint_ret

lintVars == <<lint_pc, lint_diff, lint_answer, lint_ret>>

\* handle_mr steps 5 and 6 on one tool: the input of the tool, what cal_cc or
\* cal_ss returned and the cc_data or ss_data that reaches the report
VARIABLES res_pc, res_in, res_ret, res_data

resVars == <<res_pc, res_in, res_ret, res_data>>

\* the metric extractors and the security scanner on a diff file
toolVars == <<cmpVars, ccVars, locVars, ssVars, lintVars, resVars>>

vars == <<discVars, sendVars, mrVars, rateVars, toolVars>>

otherThanDisc == <<sendVars, mrVars, rateVars, toolVars>>

otherThanSend == <<discVars, mrVars, rateVars, toolVars>>

otherThanMR == <<discVars, sendVars, rateVars, toolVars>>

otherThanRate == <<discVars, sendVars, mrVars, toolVars>>

otherThanCmp == <<discVars, sendVars, mrVars, rateVars, ccVars, locVars, ssVars, lintVars, resVars>>

otherThanCc == <<discVars, sendVars, mrVars, rateVars, cmpVars, locVars, ssVars, lintVars, resVars>>

otherThanLoc == <<discVars, sendVars, mrVars, rateVars, cmpVars, ccVars, ssVars, lintVars, resVars>>

otherThanSs == <<discVars, sendVars, mrVars, rateVars, cmpVars, ccVars, locVars, lintVars, resVars>>

otherThanLint == <<discVars, sendVars, mrVars, rateVars, cmpVars, ccVars, locVars, ssVars, resVars>>

otherThanRes == <<discVars, sendVars, mrVars, rateVars, cmpVars, ccVars, locVars, ssVars, lintVars>>

\* index of the first note of a discussion whose body starts with the header
\* (the inner for loop with its break), 0 when there is none
RECURSIVE FirstMatchFrom(_, _)
FirstMatchFrom(notes, j) ==
  IF j > Len(notes) THEN 0
  ELSE IF StartsWith(notes[j].body, HEADER) THEN j
  ELSE FirstMatchFrom(notes, j + 1)

FirstMatch(notes) == FirstMatchFrom(notes, 1)

\* the loop unresolving only a note whose body is about to change
RECURSIVE ScanFrom_UnresolveOnChange(_, _, _, _, _)
ScanFrom_UnresolveOnChange(discs, k, b, mnbr, found) ==
  IF k > Len(discs)
  THEN [pc |-> IF found THEN "done" ELSE "create", idx |-> k, found |-> found]
  ELSE LET j == FirstMatch(discs[k].notes) IN
       IF j = 0 THEN ScanFrom_UnresolveOnChange(discs, k + 1, b, mnbr, found)
       ELSE LET n == discs[k].notes[j] IN
            IF n.body = b
            THEN ScanFrom_UnresolveOnChange(discs, k + 1, b, mnbr, TRUE)
            ELSE IF n.resolved /\ mnbr
            THEN [pc |-> "unresolve", idx |-> k, found |-> TRUE]
            ELSE [pc |-> "body", idx |-> k, found |-> TRUE]

\* the loop without the "note content is identical" test
RECURSIVE ScanFrom_AlwaysUpdate(_, _, _, _, _)
ScanFrom_AlwaysUpdate(discs, k, b, mnbr, found) ==
  IF k > Len(discs)
  THEN [pc |-> IF found THEN "done" ELSE "create", idx |-> k, found |-> found]
  ELSE LET j == FirstMatch(discs[k].notes) IN
       IF j = 0 THEN ScanFrom_AlwaysUpdate(discs, k + 1, b, mnbr, found)
       ELSE LET n == discs[k].notes[j] IN
            IF n.resolved /\ mnbr
            THEN [pc |-> "unresolve", idx |-> k, found |-> TRUE]
            ELSE [pc |-> "body", idx |-> k, found |-> TRUE]

\* the outer for loop from discussion k on, up to the next remote call
RECURSIVE ScanFrom(_, _, _, _, _)
ScanFrom(discs, k, b, mnbr, found) ==
  IF k > Len(discs)
  THEN [pc |-> IF found THEN "done" ELSE "create", idx |-> k, found |-> found]
  ELSE LET j == FirstMatch(discs[k].notes) IN
       IF j = 0 THEN ScanFrom(discs, k + 1, b, mnbr, found)
       ELSE LET n == discs[k].notes[j] IN
            IF n.resolved /\ mnbr
            THEN [pc |-> "unresolve", idx |-> k, found |-> TRUE]
            ELSE IF n.body # b
            THEN [pc |-> "body", idx |-> k, found |-> TRUE]
            ELSE ScanFrom(discs, k + 1, b, mnbr, TRUE)

\* the note the loop is working on, as fetched
CurNote(p) ==
  discussions[p][idx[p]].notes[FirstMatch(discussions[p][idx[p]].notes)]

CurNoteId(p) == FirstMatch(discussions[p][idx[p]].notes)

\* PUT .../discussions/<discid>/notes/<noteid> with a JSON patch
PutNote(r, d, n, field, val) ==
  [r EXCEPT ![d].notes[n] = [@ EXCEPT ![field] = val]]

\* the loop position and found_note of a call that has returned no longer
\* exist; the discussions it fetched stay on record until the next call
Goto(p, st, ds) ==
  /\ pc' = [pc EXCEPT ![p] = st.pc]
  /\ idx' = [idx EXCEPT ![p] = IF st.pc = "done" THEN 0 ELSE st.idx]
  /\ found_note' = [found_note EXCEPT ![p] = IF st.pc = "done" THEN FALSE ELSE st.found]
  /\ discussions' = [discussions EXCEPT ![p] = ds]

Exit(p) ==
  /\ pc' = [pc EXCEPT ![p] = "exited"]
  /\ idx' = [idx EXCEPT ![p] = 0]
  /\ found_note' = [found_note EXCEPT ![p] = FALSE]
  /\ discussions' = [discussions EXCEPT ![p] = <<>>]

\* bookkeeping of one successful remote mutation by p: request o on note n
\* of discussion d
Mutated(p, o, d, n) ==
  /\ muts' = [muts EXCEPT ![p] = @ + 1]
  /\ intr' = [q \in Proc |-> IF q = p THEN intr[q] ELSE TRUE]
  /\ ops' = [ops EXCEPT ![p] = Append(@, [op |-> o, d |-> d, n |-> n])]

NotMutated == UNCHANGED <<muts, intr, ops>>

\* if not n.resolved and not must_not_be_resolved, without the test of
\* n.resolved
ResolveAfterUpdate_AnyNote(n, mnbr) == ~mnbr

\* if not n.resolved and not must_not_be_resolved: resolve_note(...)
ResolveAfterUpdate(n, mnbr) == ~n.resolved /\ ~mnbr

RECURSIVE SumOver(_, _)
SumOver(f, S) ==
  IF S = {} THEN 0
  ELSE LET x == CHOOSE y \in S : TRUE IN f[x] + SumOver(f, S \ {x})

TotalRuns == SumOver(runs, Proc)

\* ------------------------------------------------------------------------
\* send_request: values
\* ------------------------------------------------------------------------
\* Python's None in the status position of a returned pair
NoStatus == 0

\* self.max_retries
DefaultMaxRetries == 3

NoToken == <<>>

PreToken == <<"pre">>

\* the n-th token handed out by POST /api/token
Jwt(n) == <<"jwt", n>>

NoResult == [status |-> NoStatus, kind |-> "none"]

\* PROJECT_ID and MR_IID of the environment; "" when not set
EnvUnset == [project_id |-> <<>>, mr_iid |-> <<>>]

K1 == [project_id |-> <<"a">>, mr_iid |-> <<"1">>]

K2 == [project_id |-> <<"a", "-", "1">>, mr_iid |-> <<"1">>]

\* _token_project_mr = None
NoKey == <<>>

\* no send_request call made yet in this process
SendIdle ==
  /\ adapter_instance = FALSE
  /\ session_token = NoToken
  /\ token_project_mr = NoKey
  /\ spc = "idle"
  /\ mode = "none"
  /\ attempt = 0
  /\ max_retries = 0
  /\ token = NoToken
  /\ payload_ok = TRUE
  /\ posts = 0
  /\ sleeps = <<>>
  /\ resps = <<>>
  /\ result = NoResult
  /\ calls = 0
  /\ tokenLog = <<>>
  /\ issued = 0
  /\ sentTokens = {}
  /\ last401 = NoToken
  /\ rejectedReuse = FALSE
  /\ keyChanged = FALSE
  /\ seen401 = FALSE
  /\ callTokenCalls = 0
  /\ after401 = FALSE
  /\ issuedFor = <<>>
  /\ crossApplied = FALSE

\* nothing posted to the MR by this run
NoReport == [kind |-> "none"]

\* what the analyzers found in the diff, whether or not handle_mr kept it
NotMeasured == [cc_avg |-> 0, ss_high |-> FALSE, ss_rate |-> 0]

\* handle_mr not started
MRIdle ==
  /\ hpc = "mr"
  /\ features = {}
  /\ pass_score = 3
  /\ postFailed = FALSE
  /\ measured = NotMeasured
  /\ summary_success = FALSE
  /\ summary_content = ""
  /\ review_success = FALSE
  /\ review_content = ""
  /\ loc_data = 0
  /\ lint_data = 0
  /\ cc_data = "empty"
  /\ ss_data = "empty"
  /\ rating_score = 0
  /\ mr_must_not_be_resolved = FALSE
  /\ report = NoReport
  /\ ran = {}
  /\ abortedAt = "none"

\* RMMWeights.TOTAL_WEIGHT
TotalWeight == 5

\* the keys of data for which CalRating has a rate_<key> method, in the order
\* of checks_func_map
RateFactors == <<"LINT_DISABLE", "MAX_LOC", "CYCLOMATIC_COMPLEXITY", "SECURITY_SCAN">>

Absent == [shape |-> "absent", num |-> 0, high |-> FALSE]

\* no CalRating object, no cal_rating call
RateIdle ==
  /\ cr_pc = "idle"
  /\ cr_data = [i \in 1..Len(RateFactors) |-> Absent]
  /\ cr_todo = <<>>
  /\ effective_rating = TotalWeight
  /\ cr_score = 0
  /\ simple_pc = "idle"
  /\ simple_args = <<0, 0>>
  /\ simple_score = 0

\* no pair of runs under comparison
CmpIdle ==
  /\ cmp_pc = "idle"
  /\ cmp_in = <<>>
  /\ cmp_out = <<>>

\* analyze() has not returned; None of Python is NoneValue
NoneValue == [kind |-> "none"]

\* no calculator at work
CcIdle ==
  /\ cc_pc = "idle"
  /\ cc_readable = TRUE
  /\ cc_diff = <<>>
  /\ cc_ret = NoneValue
  /\ cc_code = <<>>
  /\ cc_value = 0

\* no LOC calculator at work
LocIdle ==
  /\ loc_readable = TRUE
  /\ loc_diff = <<>>
  /\ loc_rets = <<>>

\* no security scanner at work
SsIdle ==
  /\ ss_pc = "idle"
  /\ ss_file = "ok"
  /\ ss_diff = <<>>
  /\ ss_ext = NoneValue
  /\ ss_target = TRUE
  /\ ss_bandit = NoneValue
  /\ ss_ret = NoneValue

\* no lint report asked for
LintIdle ==
  /\ lint_pc = "idle"
  /\ lint_diff = <<>>
  /\ lint_answer = NoneValue
  /\ lint_ret = NoneValue

\* neither step 5 nor step 6 of handle_mr under way
ResIdle ==
  /\ res_pc = "idle"
  /\ res_in = NoneValue
  /\ res_ret = NoneValue
  /\ res_data = NoneValue

ToolsIdle == CmpIdle /\ CcIdle /\ LocIdle /\ SsIdle /\ LintIdle /\ ResIdle

DiscIdle ==
  /\ pc = [p \in Proc |-> "idle"]
  /\ discussions = [p \in Proc |-> <<>>]
  /\ idx = [p \in Proc |-> 0]
  /\ body = [p \in Proc |-> <<>>]
  /\ must_not_be_resolved = [p \in Proc |-> FALSE]
  /\ found_note = [p \in Proc |-> FALSE]
  /\ runs = [p \in Proc |-> 0]
  /\ muts = [p \in Proc |-> 0]
  /\ prevCall = [p \in Proc |-> [valid |-> FALSE]]
  /\ intr = [p \in Proc |-> FALSE]
  /\ ops = [p \in Proc |-> <<>>]

InitDisc ==
  /\ remote \in InitRemote
  /\ remote0 = remote
  /\ DiscIdle
  /\ SendIdle
  /\ MRIdle
  /\ RateIdle
  /\ ToolsIdle
  /\ bfa_host = TRUE
  /\ bfa_token_key = NoToken
  /\ api_timeout_ok = TRUE
  /\ project_mr = K1

\* the entry of update_discussion(proj, mriid, header, body,
\* must_not_be_resolved): body = header + body, found_note = False
BeginUpdate(p, b, mnbr) ==
  /\ runs' = [runs EXCEPT ![p] = @ + 1]
  /\ pc' = [pc EXCEPT ![p] = "fetch"]
  /\ body' = [body EXCEPT ![p] = HEADER \o b]
  /\ must_not_be_resolved' = [must_not_be_resolved EXCEPT ![p] = mnbr]
  /\ found_note' = [found_note EXCEPT ![p] = FALSE]
  /\ idx' = [idx EXCEPT ![p] = 0]
  /\ discussions' = [discussions EXCEPT ![p] = <<>>]
  /\ prevCall' = [prevCall EXCEPT ![p] =
        IF pc[p] = "done"
        THEN [valid |-> TRUE, body |-> body[p], mnbr |-> must_not_be_resolved[p],
              muts |-> muts[p], intr |-> intr[p]]
        ELSE [valid |-> FALSE]]
  /\ muts' = [muts EXCEPT ![p] = 0]
  /\ intr' = [intr EXCEPT ![p] = FALSE]
  /\ ops' = [ops EXCEPT ![p] = <<>>]
  /\ UNCHANGED <<remote, remote0>>
  /\ UNCHANGED otherThanDisc

\* update_discussion(proj, mriid, header, body, must_not_be_resolved) is
\* called: a webhook event started a container, or the process calls again
CallUpdate(p, b, mnbr) ==
  /\ pc[p] \in {"idle", "done"}
  /\ TotalRuns < MaxRuns
  /\ p = "p2" => runs["p1"] > 0   \* the containers are alike: p1 names the first to start
  /\ BeginUpdate(p, b, mnbr)

\* discussions = gitlab("/projects/../discussions")
Fetch(p, ok) ==
  /\ pc[p] = "fetch"
  /\ IF ok
     THEN Goto(p, ScanFrom(remote, 1, body[p], must_not_be_resolved[p], FALSE), remote)
     ELSE Exit(p)
  /\ NotMutated
  /\ UNCHANGED <<remote, body, must_not_be_resolved, runs, prevCall, remote0>>
  /\ UNCHANGED otherThanDisc

\* unresolve_note(proj, mriid, disc.id, n.id)
Unresolve(p, ok) ==
  /\ pc[p] = "unresolve"
  /\ IF ok
     THEN /\ remote' = PutNote(remote, idx[p], CurNoteId(p), "resolved", FALSE)
          /\ Mutated(p, "unresolve", idx[p], CurNoteId(p))
          /\ IF CurNote(p).body # body[p]
             THEN Goto(p, [pc |-> "body", idx |-> idx[p], found |-> TRUE], discussions[p])
             ELSE Goto(p, ScanFrom(discussions[p], idx[p] + 1, body[p],
                                   must_not_be_resolved[p], TRUE), discussions[p])
     ELSE /\ Exit(p)
          /\ NotMutated
          /\ UNCHANGED remote
  /\ UNCHANGED <<body, must_not_be_resolved, runs, prevCall, remote0>>
  /\ UNCHANGED otherThanDisc

\* update_note_body(proj, mriid, disc.id, n.id, body)
UpdateNoteBody(p, ok) ==
  /\ pc[p] = "body"
  /\ IF ok
     THEN /\ remote' = PutNote(remote, idx[p], CurNoteId(p), "body", body[p])
          /\ Mutated(p, "body", idx[p], CurNoteId(p))
          /\ IF ResolveAfterUpdate(CurNote(p), must_not_be_resolved[p])
             THEN Goto(p, [pc |-> "resolve", idx |-> idx[p], found |-> TRUE], discussions[p])
             ELSE Goto(p, ScanFrom(discussions[p], idx[p] + 1, body[p],
                                   must_not_be_resolved[p], TRUE), discussions[p])
     ELSE /\ Exit(p)
          /\ NotMutated
          /\ UNCHANGED remote
  /\ UNCHANGED <<body, must_not_be_resolved, runs, prevCall, remote0>>
  /\ UNCHANGED otherThanDisc

\* resolve_note(proj, mriid, disc.id, n.id)
Resolve(p, ok) ==
  /\ pc[p] = "resolve"
  /\ IF ok
     THEN /\ remote' = PutNote(remote, idx[p], CurNoteId(p), "resolved", TRUE)
          /\ Mutated(p, "resolve", idx[p], CurNoteId(p))
          /\ Goto(p, ScanFrom(discussions[p], idx[p] + 1, body[p],
                              must_not_be_resolved[p], TRUE), discussions[p])
     ELSE /\ Exit(p)
          /\ NotMutated
          /\ UNCHANGED remote
  /\ UNCHANGED <<body, must_not_be_resolved, runs, prevCall, remote0>>
  /\ UNCHANGED otherThanDisc

\* create_note(proj, mriid, body): a new discussion with one unresolved note
CreateNote(p, ok) ==
  /\ pc[p] = "create"
  /\ IF ok
     THEN /\ remote' = Append(remote, [notes |-> <<Note(body[p], FALSE)>>])
          /\ Mutated(p, "create", Len(remote) + 1, 1)
          /\ Goto(p, [pc |-> "done", idx |-> 0, found |-> TRUE], discussions[p])
     ELSE /\ Exit(p)
          /\ NotMutated
          /\ UNCHANGED remote
  /\ UNCHANGED <<body, must_not_be_resolved, runs, prevCall, remote0>>
  /\ UNCHANGED otherThanDisc

NextDisc ==
  \/ \E p \in Proc, b \in Reports, mnbr \in BOOLEAN : CallUpdate(p, b, mnbr)
  \/ \E p \in Proc, ok \in BOOLEAN : Fetch(p, ok)
  \/ \E p \in Proc, ok \in BOOLEAN : Unresolve(p, ok)
  \/ \E p \in Proc, ok \in BOOLEAN : UpdateNoteBody(p, ok)
  \/ \E p \in Proc, ok \in BOOLEAN : Resolve(p, ok)
  \/ \E p \in Proc, ok \in BOOLEAN : CreateNote(p, ok)

SpecDisc == InitDisc /\ [][NextDisc]_vars

\* ------------------------------------------------------------------------
\* Claims about update_discussion (SpecDisc)
\* ------------------------------------------------------------------------
\* number of threads carrying a note that starts with the header sentinel
OwnedCount(r) == Cardinality({k \in 1..Len(r) : FirstMatch(r[k].notes) # 0})

\* p completed two calls in a row with the same arguments and nobody else
\* changed the remote threads since the first of them started
TwiceInARow(p) ==
  /\ pc[p] = "done"
  /\ prevCall[p].valid
  /\ prevCall[p].body = body[p]
  /\ prevCall[p].mnbr = must_not_be_resolved[p]
  /\ ~prevCall[p].intr
  /\ ~intr[p]

\* C2 as stated: two calls in a row with the same arguments perform exactly
\* one remote mutation in the first call and none in the second.
C2_ExactlyOneThenZero ==
  \A p \in Proc : TwiceInARow(p) => prevCall[p].muts = 1 /\ muts[p] = 0

\* C2 amended: two calls in a row with the same arguments perform no remote
\* mutation in the second call; the first call performs zero, one or two
\* mutations per sentinel-bearing thread (one create when there is none).
C2_SecondCallIdle ==
  \A p \in Proc :
    TwiceInARow(p) => muts[p] = 0 /\ prevCall[p].muts <= 2 * OwnedCount(remote)

\* a repeated call after a first call that unresolved and rewrote the note
C2_Witness ==
  \E p \in Proc : TwiceInARow(p) /\ prevCall[p].muts = 2 /\ muts[p] = 0

\* C3 as stated: starting from an MR without a sentinel-bearing thread, at most
\* one such thread exists after any runs, interleaved runs of two processes
\* included.
C3_AtMostOneOwnedThread ==
  OwnedCount(remote0) = 0 => OwnedCount(remote) <= 1

\* C4 as stated: a call that ends in a failed remote call has applied none of
\* its mutations.
C4_NoPartialEdit ==
  \A p \in Proc : pc[p] = "exited" => muts[p] = 0

\* the threads of the fetched discussions in which the call found a note
\* starting with the header, and that note as fetched
OwnedAt(p) ==
  {k \in 1..Len(discussions[p]) : FirstMatch(discussions[p][k].notes) # 0}

SeenNote(p, k) == discussions[p][k].notes[FirstMatch(discussions[p][k].notes)]

NowNote(p, k) == remote[k].notes[FirstMatch(discussions[p][k].notes)]

\* the requests the call of p issued on discussion k, in order
OpNames(p, k) ==
  LET sel == SelectSeq(ops[p], LAMBDA e : e.d = k)
  IN [i \in 1..Len(sel) |-> sel[i].op]

\* C13: a completed call with must_not_be_resolved = True has issued an
\* unresolve, before anything else, on every owned note it fetched as
\* resolved, whatever its body, and unless another process changed the MR
\* meanwhile that note is unresolved at completion.
C13_UnresolveWhenOpen ==
  \A p \in Proc :
    (pc[p] = "done" /\ must_not_be_resolved[p]) =>
      \A k \in OwnedAt(p) :
        SeenNote(p, k).resolved =>
          /\ OpNames(p, k) # <<>>
          /\ OpNames(p, k)[1] = "unresolve"
          /\ ~intr[p] => ~NowNote(p, k).resolved

\* a resolved note with the very body of the report, unresolved by the call
C13_Witness ==
  \E p \in Proc :
    /\ pc[p] = "done" /\ must_not_be_resolved[p] /\ ~intr[p]
    /\ \E k \in OwnedAt(p) :
         /\ SeenNote(p, k).resolved
         /\ SeenNote(p, k).body = body[p]
         /\ OpNames(p, k) = <<"unresolve">>
         /\ ~NowNote(p, k).resolved

\* C14: a completed call with must_not_be_resolved = False has, on an owned
\* note fetched unresolved with another body, updated the body and then
\* resolved it, and has sent no resolve or unresolve for a note fetched as
\* resolved.
C14_UpdateThenResolve ==
  \A p \in Proc :
    (pc[p] = "done" /\ ~must_not_be_resolved[p]) =>
      \A k \in OwnedAt(p) :
        /\ (~SeenNote(p, k).resolved /\ SeenNote(p, k).body # body[p])
           => /\ OpNames(p, k) = <<"body", "resolve">>
              /\ ~intr[p] => NowNote(p, k).resolved /\ NowNote(p, k).body = body[p]
        /\ SeenNote(p, k).resolved
           => OpNames(p, k) \in {<<>>, <<"body">>}

\* a fail-to-pass flip: body rewritten, then resolved
C14_Witness ==
  \E p \in Proc :
    /\ pc[p] = "done" /\ ~must_not_be_resolved[p] /\ ~intr[p]
    /\ \E k \in OwnedAt(p) :
         /\ ~SeenNote(p, k).resolved
         /\ OpNames(p, k) = <<"body", "resolve">>
         /\ NowNote(p, k) = Note(body[p], TRUE)

\* C15 as stated: a completed call has issued no request on an owned note
\* whose fetched body is identical to the new body, whatever its resolved flag
\* and must_not_be_resolved.
C15_IdenticalNoMutation ==
  \A p \in Proc :
    pc[p] = "done" =>
      \A k \in OwnedAt(p) :
        SeenNote(p, k).body = body[p] => OpNames(p, k) = <<>>

\* C15 amended: on an owned note whose fetched body is identical to the new
\* body a completed call has issued no request, except one unresolve when the
\* note was resolved and must_not_be_resolved = True.
C15_IdenticalOnlyUnresolve ==
  \A p \in Proc :
    pc[p] = "done" =>
      \A k \in OwnedAt(p) :
        SeenNote(p, k).body = body[p] =>
          OpNames(p, k) = IF SeenNote(p, k).resolved /\ must_not_be_resolved[p]
                          THEN <<"unresolve">> ELSE <<>>

\* an identical resolved note and a passing report: nothing sent at all
C15_Witness ==
  \E p \in Proc :
    /\ pc[p] = "done" /\ ~must_not_be_resolved[p]
    /\ ops[p] = <<>>
    /\ \E k \in OwnedAt(p) :
         SeenNote(p, k).resolved /\ SeenNote(p, k).body = body[p]

\* the first fetched thread whose first note starts with the header, 0 when
\* there is none
RECURSIVE FirstOwnedFrom(_, _)
FirstOwnedFrom(discs, k) ==
  IF k > Len(discs) THEN 0
  ELSE IF StartsWith(discs[k].notes[1].body, HEADER) THEN k
  ELSE FirstOwnedFrom(discs, k + 1)

\* C16 as stated: a completed call has changed at most one thread, the first
\* fetched thread whose first note starts with the header (or has created
\* one); no other thread and no other note got a request.
C16_FirstMatchWins ==
  \A p \in Proc :
    pc[p] = "done" =>
      \A i \in 1..Len(ops[p]) :
        \/ ops[p][i].op = "create"
        \/ /\ ops[p][i].d = FirstOwnedFrom(discussions[p], 1)
           /\ ops[p][i].n = 1

\* ------------------------------------------------------------------------
\* send_request (rate_my_mr.py, llm_adapter.py)
\* ------------------------------------------------------------------------
Http(s, b) == [kind |-> "http", status |-> s, body |-> b]

ConnError == [kind |-> "conn", status |-> NoStatus, body |-> "none"]

TimeoutError == [kind |-> "timeout", status |-> NoStatus, body |-> "none"]

\* requests.post(json=payload) raised before anything was sent
NoSend == [kind |-> "nosend", status |-> NoStatus, body |-> "none"]

\* what the LLM endpoint can answer to one POST: 200 with the expected JSON,
\* 200 with a body that is not JSON, 200 with JSON of another shape, error
\* statuses, no answer
Responses ==
  { Http(200, "valid"), Http(200, "nojson"), Http(200, "badshape"),
    Http(401, "err"), Http(403, "err"), Http(429, "err"), Http(500, "err"),
    ConnError, TimeoutError }

\* what POST /api/token can answer
TokenResponses == {"ok", "http_error", "no_token"}

ProjectMrs == {K1, K2}

RECURSIVE Pow2(_)
Pow2(n) == IF n = 0 THEN 1 ELSE 2 * Pow2(n - 1)

\* the same wait before every retry
Backoff_Constant(a) == 2

\* wait_time = 2 ** attempt
Backoff(a) == Pow2(a)

\* sleeping before the first attempt too
SleepBefore_Always(a) == a >= 0

\* if attempt > 0: time.sleep(wait_time)
SleepBefore(a) == a > 0

\* a 401 taken out of the terminal client errors, so that the loop retries it
IsClientError_Retry401(s) == 400 <= s /\ s < 500 /\ s # 429 /\ s # 401

\* every HTTP error retried
IsClientError_RetryAll(s) == FALSE

\* 400 <= resp.status_code < 500 and resp.status_code != 429
IsClientError(s) == 400 <= s /\ s < 500 /\ s # 429

\* attempt == max_retries - 1, one too late
LastAttempt_OffByOne(a, m) == a = m

\* attempt == max_retries - 1
LastAttempt(a, m) == a = m - 1

\* the 401 branch that resets the cache, left out
ClearsCache_Never(resp) == FALSE

\* if resp.status_code == 401: clear the cached token and its owner key
ClearsCache(resp) == resp.kind = "http" /\ resp.status = 401

\* max_retries = max_retries or self.max_retries
EffectiveRetries(mr) == IF mr = 0 THEN DefaultMaxRetries ELSE mr

\* _get_project_and_mr: (None, None) unless both are set
HasProjectAndMr == project_mr.project_id # <<>> /\ project_mr.mr_iid # <<>>

\* current_project_mr = f"{project_id}-{mr_iid}"
KeyOf(k) ==
  IF k.project_id # <<>> /\ k.mr_iid # <<>>
  THEN k.project_id \o <<"-">> \o k.mr_iid
  ELSE <<"N", "o", "n", "e", "-", "N", "o", "n", "e">>

CurrentProjectMr == KeyOf(project_mr)

\* _get_or_create_token reusing the cached token whatever key it belongs to
GetOrCreateToken_IgnoreKey(tokResp) ==
  IF bfa_token_key # NoToken
  THEN [how |-> "preconfigured", token |-> bfa_token_key, called |-> FALSE]
  ELSE IF session_token # NoToken
  THEN [how |-> "reuse", token |-> session_token, called |-> FALSE]
  ELSE IF ~HasProjectAndMr
  THEN [how |-> "raise", token |-> NoToken, called |-> FALSE]
  ELSE IF tokResp = "ok"
  THEN [how |-> "acquired", token |-> Jwt(issued + 1), called |-> TRUE]
  ELSE [how |-> "raise", token |-> NoToken, called |-> TRUE]

\* _get_or_create_token without the "reuse existing session token" branch
GetOrCreateToken_NoReuse(tokResp) ==
  IF bfa_token_key # NoToken
  THEN [how |-> "preconfigured", token |-> bfa_token_key, called |-> FALSE]
  ELSE IF ~HasProjectAndMr
  THEN [how |-> "raise", token |-> NoToken, called |-> FALSE]
  ELSE IF tokResp = "ok"
  THEN [how |-> "acquired", token |-> Jwt(issued + 1), called |-> TRUE]
  ELSE [how |-> "raise", token |-> NoToken, called |-> TRUE]

\* _get_or_create_token storing and returning what the token endpoint gave,
\* a missing token included, instead of raising
GetOrCreateToken_KeepGoing(tokResp) ==
  IF bfa_token_key # NoToken
  THEN [how |-> "preconfigured", token |-> bfa_token_key, called |-> FALSE]
  ELSE IF session_token # NoToken /\ token_project_mr = CurrentProjectMr
  THEN [how |-> "reuse", token |-> session_token, called |-> FALSE]
  ELSE IF ~HasProjectAndMr
  THEN [how |-> "raise", token |-> NoToken, called |-> FALSE]
  ELSE IF tokResp = "ok"
  THEN [how |-> "acquired", token |-> Jwt(issued + 1), called |-> TRUE]
  ELSE [how |-> "acquired", token |-> NoToken, called |-> TRUE]

\* LLMAdapter._get_or_create_token: where the token of this call comes from
GetOrCreateToken(tokResp) ==
  IF bfa_token_key # NoToken
  THEN [how |-> "preconfigured", token |-> bfa_token_key, called |-> FALSE]
  ELSE IF session_token # NoToken /\ token_project_mr = CurrentProjectMr
  THEN [how |-> "reuse", token |-> session_token, called |-> FALSE]
  ELSE IF ~HasProjectAndMr
  THEN [how |-> "raise", token |-> NoToken, called |-> FALSE]
  ELSE IF tokResp = "ok"
  THEN [how |-> "acquired", token |-> Jwt(issued + 1), called |-> TRUE]
  ELSE [how |-> "raise", token |-> NoToken, called |-> TRUE]

\* one iteration of the retry loop after the answer: return a pair, or go on.
\* out = "return" | "continue"
Ret(s, k) == [out |-> "return", status |-> s, kind |-> k]

Continue == [out |-> "continue", status |-> NoStatus, kind |-> "none"]

\* except ...: if attempt == max_retries - 1: return None, str(err)
RetryOr(a, m, s) == IF LastAttempt(a, m) THEN Ret(s, "error") ELSE Continue

\* LLMAdapter.send_request, body of the for loop
HandleAdapter(resp, a, m) ==
  IF resp.kind = "http"
  THEN IF resp.status = 200
       THEN IF resp.body = "valid" THEN Ret(200, "content")
            ELSE IF resp.body = "nojson" THEN Ret(200, "error")
            ELSE RetryOr(a, m, NoStatus)
       ELSE IF IsClientError(resp.status) THEN Ret(resp.status, "error")
            ELSE RetryOr(a, m, resp.status)
  ELSE RetryOr(a, m, NoStatus)

\* rate_my_mr.send_request, body of the legacy for loop
HandleLegacy(resp, a, m) ==
  IF resp.kind = "http"
  THEN IF resp.status = 200
       THEN IF resp.body = "valid" THEN Ret(200, "content")
            ELSE IF resp.body = "badshape" THEN Ret(200, "other")
            ELSE RetryOr(a, m, NoStatus)
       ELSE IF IsClientError(resp.status) THEN Ret(resp.status, "error")
            ELSE RetryOr(a, m, resp.status)
  ELSE RetryOr(a, m, NoStatus)

InitSend ==
  /\ remote = <<>>
  /\ remote0 = <<>>
  /\ DiscIdle
  /\ SendIdle
  /\ MRIdle
  /\ RateIdle
  /\ ToolsIdle
  /\ bfa_host \in BOOLEAN
  /\ bfa_token_key \in {NoToken, PreToken}
  /\ api_timeout_ok \in BOOLEAN
  /\ project_mr \in ProjectMrs \cup {EnvUnset}

\* handle_mr: os.environ['PROJECT_ID'] = proj; os.environ['MR_IID'] = str(mriid)
SetProjectMr(k) ==
  /\ spc # "loop"
  /\ k # project_mr
  /\ project_mr' = k
  /\ keyChanged' = (keyChanged \/ calls > 0)
  /\ UNCHANGED <<bfa_host, bfa_token_key, api_timeout_ok, adapter_instance,
                 session_token, token_project_mr, spc, mode, attempt,
                 max_retries, token, payload_ok, posts, sleeps, resps, result,
                 calls, tokenLog, issued, sentTokens, last401, rejectedReuse,
                 seen401, callTokenCalls, after401, issuedFor, crossApplied>>
  /\ UNCHANGED otherThanSend

\* a call of send_request up to the retry loop: routing, get_adapter(),
\* _get_or_create_token(), _transform_request()
SendRequest(entry, mr, pok, tokResp) ==
  LET use_adapter == entry = "llm_adapter" \/ bfa_host
      init_fails == ~adapter_instance /\ (~api_timeout_ok \/ ~bfa_host)
      tk == GetOrCreateToken(tokResp)
      m == IF use_adapter THEN EffectiveRetries(mr) ELSE mr
  IN
  /\ spc # "loop"
  /\ calls < MaxCalls
  /\ calls' = calls + 1
  /\ payload_ok' = pok
  /\ attempt' = 0
  /\ posts' = 0
  /\ sleeps' = <<>>
  /\ resps' = <<>>
  /\ max_retries' = m
  /\ mode' = IF use_adapter THEN "adapter" ELSE "legacy"
  /\ after401' = (mode = "adapter" /\ resps # <<>> /\ ClearsCache(resps[Len(resps)]))
  /\ IF use_adapter /\ init_fails
     THEN \* LLMAdapter.__init__ raises ValueError
          /\ spc' = "raised"
          /\ result' = NoResult
          /\ token' = NoToken
          /\ callTokenCalls' = 0
          /\ UNCHANGED <<adapter_instance, session_token, token_project_mr,
                         tokenLog, issued, issuedFor>>
     ELSE IF use_adapter
     THEN /\ adapter_instance' = TRUE
          /\ tokenLog' = IF tk.called THEN Append(tokenLog, tokResp) ELSE tokenLog
          /\ callTokenCalls' = IF tk.called THEN 1 ELSE 0
          /\ token' = tk.token
          /\ IF tk.how = "acquired"
             THEN /\ session_token' = tk.token
                  /\ token_project_mr' = CurrentProjectMr
                  /\ issued' = issued + 1
                  /\ issuedFor' = Append(issuedFor, project_mr)
             ELSE UNCHANGED <<session_token, token_project_mr, issued, issuedFor>>
          /\ IF tk.how = "raise"
             THEN \* return None, "JWT token acquisition failed: ..."
                  /\ spc' = "returned"
                  /\ result' = [status |-> NoStatus, kind |-> "error"]
             ELSE IF ~pok
             THEN \* json.dumps(payload) raises TypeError in _transform_request
                  /\ spc' = "raised"
                  /\ result' = NoResult
             ELSE /\ spc' = "loop"
                  /\ result' = NoResult
     ELSE /\ token' = NoToken
          /\ callTokenCalls' = 0
          /\ IF m = 0
             THEN \* range(0): return None, "Failed after 0 attempts"
                  /\ spc' = "returned"
                  /\ result' = [status |-> NoStatus, kind |-> "error"]
             ELSE /\ spc' = "loop"
                  /\ result' = NoResult
          /\ UNCHANGED <<adapter_instance, session_token, token_project_mr,
                         tokenLog, issued, issuedFor>>
  /\ UNCHANGED <<bfa_host, bfa_token_key, api_timeout_ok, project_mr,
                 sentTokens, last401, rejectedReuse, keyChanged, seen401,
                 crossApplied>>
  /\ UNCHANGED otherThanSend

\* token t came from POST /api/token under a PROJECT_ID/MR_IID pair other
\* than the one of the environment now
AcquiredForOther(t) ==
  \E n \in 1..Len(issuedFor) : t = Jwt(n) /\ issuedFor[n] # project_mr

\* one iteration of the retry loop: backoff sleep, POST, handling of the answer
Attempt(resp) ==
  LET sent == mode = "adapter" \/ payload_ok
      r == IF sent THEN resp ELSE NoSend
      h == IF mode = "adapter" THEN HandleAdapter(r, attempt, max_retries)
           ELSE HandleLegacy(r, attempt, max_retries)
      is401 == mode = "adapter" /\ r.kind = "http" /\ r.status = 401
  IN
  /\ spc = "loop"
  /\ sleeps' = IF SleepBefore(attempt) THEN Append(sleeps, Backoff(attempt))
               ELSE sleeps
  /\ posts' = IF sent THEN posts + 1 ELSE posts
  /\ resps' = Append(resps, r)
  /\ IF mode = "adapter"
     THEN /\ sentTokens' = sentTokens \cup {token}
          /\ rejectedReuse' = (rejectedReuse \/ (last401 # NoToken /\ token = last401))
          /\ crossApplied' = (crossApplied \/ AcquiredForOther(token))
     ELSE UNCHANGED <<sentTokens, rejectedReuse, crossApplied>>
  /\ IF mode = "adapter" /\ ClearsCache(r)
     THEN \* LLMAdapter._session_token = None; _token_project_mr = None
          /\ session_token' = NoToken
          /\ token_project_mr' = NoKey
     ELSE UNCHANGED <<session_token, token_project_mr>>
  /\ IF is401
     THEN /\ last401' = token
          /\ seen401' = TRUE
     ELSE UNCHANGED <<last401, seen401>>
  /\ IF h.out = "return"
     THEN /\ spc' = "returned"
          /\ result' = [status |-> h.status, kind |-> h.kind]
          /\ UNCHANGED attempt
     ELSE IF attempt + 1 < max_retries
     THEN /\ attempt' = attempt + 1
          /\ UNCHANGED <<spc, result>>
     ELSE \* the for loop ran out: return None, "Failed after N attempts"
          /\ spc' = "returned"
          /\ result' = [status |-> NoStatus, kind |-> "error"]
          /\ UNCHANGED attempt
  /\ UNCHANGED <<bfa_host, bfa_token_key, api_timeout_ok, project_mr,
                 adapter_instance, mode, max_retries, token, payload_ok, calls,
                 tokenLog, issued, keyChanged, callTokenCalls, after401,
                 issuedFor>>
  /\ UNCHANGED otherThanSend

NextSend ==
  \/ \E k \in ProjectMrs : SetProjectMr(k)
  \/ \E entry \in {"rate_my_mr", "llm_adapter"}, mr \in 0..MaxRetriesArg,
        pok \in BOOLEAN, tokResp \in TokenResponses :
        SendRequest(entry, mr, pok, tokResp)
  \/ \E resp \in Responses : Attempt(resp)

SpecSend == InitSend /\ [][NextSend]_vars

\* ------------------------------------------------------------------------
\* Claims about send_request (SpecSend)
\* ------------------------------------------------------------------------
\* HTTP 5xx, HTTP 429, connection error or timeout
Retryable(r) ==
  \/ r.kind \in {"conn", "timeout"}
  \/ r.kind = "http" /\ (r.status >= 500 \/ r.status = 429)

\* a 4xx status other than 429
Terminal4xx(r) ==
  r.kind = "http" /\ r.status >= 400 /\ r.status < 500 /\ r.status # 429

AllRetryable(rs) == \A i \in 1..Len(rs) : Retryable(rs[i])

\* C5: k retryable failures followed by a 200 with a valid body: the call has
\* returned (200, payload) after exactly k+1 POSTs and exactly k sleeps.
C5_RetryThenSuccess ==
  (/\ resps # <<>>
   /\ resps[Len(resps)] = Http(200, "valid")
   /\ AllRetryable(SubSeq(resps, 1, Len(resps) - 1)))
  => /\ spc = "returned"
     /\ result = [status |-> 200, kind |-> "content"]
     /\ posts = Len(resps)
     /\ Len(sleeps) = Len(resps) - 1

\* 500, 500, 200 through the adapter
C5_Witness ==
  /\ mode = "adapter"
  /\ resps = <<Http(500, "err"), Http(500, "err"), Http(200, "valid")>>
  /\ spc = "returned"
  /\ result.status = 200
  /\ Len(sleeps) = 2

\* C6: a 4xx answer other than 429 is the last answer of the call: the call
\* has returned that status with an error message, no attempt and no sleep
\* followed.
C6_ClientErrorTerminal ==
  \A i \in 1..Len(resps) :
    Terminal4xx(resps[i])
    => /\ i = Len(resps)
       /\ spc = "returned"
       /\ result = [status |-> resps[i].status, kind |-> "error"]
       /\ posts = i
       /\ Len(sleeps) = i - 1

\* a 403 on the first of three allowed attempts
C6_Witness ==
  /\ resps = <<Http(403, "err")>>
  /\ max_retries = 3
  /\ spc = "returned"
  /\ result.status = 403
  /\ sleeps = <<>>

\* C7: no call issues more than max_retries POSTs or loop iterations, and when
\* every attempt ended in a retryable failure the call has issued exactly
\* max_retries POSTs and returned (last HTTP status, error) or (None, error).
C7_BoundedRetries ==
  /\ posts <= max_retries
  /\ Len(resps) <= max_retries
  /\ spc = "loop" => attempt < max_retries /\ Len(resps) = attempt
  /\ (spc = "returned" /\ resps # <<>> /\ AllRetryable(resps))
     => /\ posts = max_retries
        /\ result.kind = "error"
        /\ result.status = IF resps[Len(resps)].kind = "http"
                            THEN resps[Len(resps)].status
                            ELSE NoStatus

\* three failures through the adapter, the last one an HTTP 429
C7_Witness ==
  /\ mode = "adapter"
  /\ spc = "returned"
  /\ resps = <<Http(500, "err"), ConnError, Http(429, "err")>>
  /\ posts = 3
  /\ result.status = 429

\* C8 as stated: send_request never raises.
C8_NeverRaises == spc # "raised"

\* one analysis run: no pre-configured token, PROJECT_ID/MR_IID unchanged, the
\* first token acquisition succeeded, no 401 from the LLM endpoint
OneRun ==
  /\ bfa_token_key = NoToken
  /\ ~keyChanged
  /\ ~seen401
  /\ tokenLog # <<>>
  /\ tokenLog[1] = "ok"

\* C9: within one run the token endpoint is called exactly once and every LLM
\* request carries the token it returned.
C9_TokenOnce ==
  OneRun => /\ Len(tokenLog) = 1
            /\ session_token # NoToken
            /\ sentTokens \subseteq {session_token}

\* a second call of the run, on its retry after a 500
C9_Witness ==
  /\ OneRun
  /\ calls = 2
  /\ resps = <<Http(500, "err")>>
  /\ spc = "loop"
  /\ sentTokens = {session_token}

\* the cache never holds the token of the latest 401
CacheCleared == last401 # NoToken => session_token # last401

\* C10 as stated: after a 401 the cached token and key are cleared and no
\* later request carries the rejected token.
C10_NeverResendRejected == CacheCleared /\ ~rejectedReuse

\* C10 amended: after a 401 the cached token and key are cleared; when no
\* BFA_TOKEN_KEY is pre-configured no later request carries the rejected
\* token.
C10_FreshAfter401 ==
  CacheCleared /\ (bfa_token_key = NoToken => ~rejectedReuse)

\* the call after a 401 sends a token acquired after the rejection
C10_Witness ==
  /\ bfa_token_key = NoToken
  /\ last401 = Jwt(1)
  /\ calls = 2
  /\ posts = 1
  /\ token = Jwt(2)
  /\ session_token = Jwt(2)

\* the adapter call in progress or just ended got a 401 as its i-th answer
Is401(i) == resps[i].kind = "http" /\ resps[i].status = 401

\* C11 as stated: a call answered with 401 acquires one fresh token and
\* re-issues the request with it before it reports failure.
C11_ReacquireAndReissue ==
  (mode = "adapter" /\ spc = "returned" /\ resps # <<>> /\ Is401(1))
  => /\ callTokenCalls >= 1
     /\ Len(resps) >= 2
     /\ posts >= 2

\* C11 amended: a 401 ends the call at once with (401, error) and an empty
\* cache, without another token acquisition or POST in that call; the call
\* after it (no pre-configured token, PROJECT_ID and MR_IID set) calls the
\* token endpoint exactly once and sends only the token that call returned.
C11_InvalidateThenNextCall ==
  /\ mode = "adapter" =>
       \A i \in 1..Len(resps) :
         Is401(i) => /\ i = Len(resps)
                     /\ spc = "returned"
                     /\ result = [status |-> 401, kind |-> "error"]
                     /\ posts = i
                     /\ session_token = NoToken
                     /\ token_project_mr = NoKey
                     /\ callTokenCalls <= 1
  /\ (after401 /\ mode = "adapter" /\ bfa_token_key = NoToken /\ HasProjectAndMr)
     => /\ callTokenCalls = 1
        /\ token # NoToken => token = Jwt(issued)
        /\ token = NoToken => spc = "returned" /\ posts = 0

\* a 401 on the first call, then a second call that acquired a second token
\* and got its answer with it
C11_Witness ==
  /\ after401
  /\ bfa_token_key = NoToken
  /\ callTokenCalls = 1
  /\ tokenLog = <<"ok", "ok">>
  /\ token = Jwt(2)
  /\ resps = <<Http(200, "valid")>>
  /\ spc = "returned"

\* C12: no request carries a token that the token endpoint issued under
\* another PROJECT_ID/MR_IID pair than the one of the request; a cached token
\* is always the latest one issued, cached with the key of the pair it was
\* issued for, and distinct pairs have distinct keys.
C12_NoCrossApply ==
  /\ ~crossApplied
  /\ session_token # NoToken =>
       /\ session_token = Jwt(issued)
       /\ token_project_mr = KeyOf(issuedFor[issued])
  /\ \A a, b \in ProjectMrs : KeyOf(a) = KeyOf(b) => a = b

\* a call under K2 after a call under K1: both sent, each its own token
C12_Witness ==
  /\ issuedFor = <<K1, K2>>
  /\ project_mr = K2
  /\ sentTokens = {Jwt(1), Jwt(2)}
  /\ session_token = Jwt(2)
  /\ token_project_mr = KeyOf(K2)
  /\ spc = "returned"

\* ------------------------------------------------------------------------
\* handle_mr: the analysis pipeline (rate_my_mr_gitlab.py, rate_my_mr.py)
\* ------------------------------------------------------------------------
Checks ==
  {"ai_summary", "ai_code_review", "loc_analysis", "lint_disable_check",
   "cyclomatic_complexity", "security_scan"}

\* score = 5
MaxScore == 5

\* if net_loc > 500
LocCeiling == 500

\* must_not_be_resolved = rating_score < 3
PassThreshold == 3

\* rating.pass_score of .rate-my-mr.yaml (default 3)
PassScores == {2, 3, 4}

\* RMMLimits.CYCLOMATIC_COMPLEXITY
CcCeiling == 10

\* RMMLimits.SECURITY_SCAN = 0.005 issues per line, in issues per 1000 lines
SsTolerance == 5

\* avg_cc values of a diff with functions
CcValues == {4, 11}

\* avg_security_scan_value values, in issues per 1000 lines
SsRates == {0, 6}

\* net_lines_of_code_change values an MR can have
LocValues == {0 - 3, 12, 501}

\* num_lint_disable values the AI can report
LintValues == {0, 2}

\* what generate_summary / generate_initial_code_review get from send_request:
\*   ok            (200, {"content": [{"type": "text", "text": ...}]})
\*   non200        (status, str) with status None or an error status
\*   ok_str        (200, "Invalid JSON response: ...") of the adapter
\*   ok_nocontent  (200, {}) of a legacy service
\*   raise         send_request raised
AiOutcomes == {"ok", "non200", "ok_str", "ok_nocontent", "raise"}

\* generate_summary, generate_initial_code_review: (success, content) or the
\* exception leaves the function
GenerateText(o) ==
  IF o = "ok" THEN [raised |-> FALSE, success |-> TRUE, content |-> "text"]
  ELSE IF o = "non200" THEN [raised |-> FALSE, success |-> FALSE, content |-> "error"]
  ELSE IF o = "ok_nocontent"
  THEN \* None[0]: TypeError, caught
       [raised |-> FALSE, success |-> FALSE, content |-> "error"]
  ELSE \* str.get: AttributeError is not in (KeyError, IndexError, TypeError)
       [raised |-> TRUE, success |-> FALSE, content |-> ""]

\* what generate_lint_disable_report gets: as AiOutcomes, with the answer text
\* holding the JSON summary (ok) or not (ok_nomatch)
LintOutcomes == {"ok", "ok_nomatch", "non200", "ok_str", "ok_nocontent", "raise"}

\* generate_lint_disable_report: "pair" (success, data) or "none" when the
\* function ends without a return statement
GenerateLint(o, n) ==
  IF o = "ok" THEN [ret |-> "pair", success |-> TRUE, num |-> n]
  ELSE IF o = "non200" THEN [ret |-> "none", success |-> FALSE, num |-> 0]
  ELSE \* return False, "No data is available" / except Exception: return False, str(err)
       [ret |-> "pair", success |-> FALSE, num |-> 0]

\* cal_rating(net_loc, lint_disable_count)
Max(a, b) == IF a >= b THEN a ELSE b

\* a deduction in proportion to the size of the change, without the floor
cal_rating_Proportional(net_loc, lint_disable_count) ==
  MaxScore - (net_loc \div 100) - (IF lint_disable_count > 0 THEN 1 ELSE 0)

\* the lint deduction left out
cal_rating_LocOnly(net_loc, lint_disable_count) ==
  Max(MaxScore - (IF net_loc > LocCeiling THEN 1 ELSE 0), 0)

cal_rating(net_loc, lint_disable_count) ==
  Max(MaxScore - (IF net_loc > LocCeiling THEN 1 ELSE 0)
               - (IF lint_disable_count > 0 THEN 1 ELSE 0), 0)

\* the LOC of the diff measured whether or not loc_analysis is enabled
LocData_IgnoreFlag(fs, ok, net) ==
  IF ok THEN net ELSE 0

\* loc_data['net_lines_of_code_change'] after step 3 under the features fs
LocData(fs, ok, net) ==
  IF "loc_analysis" \in fs THEN (IF ok THEN net ELSE 0) ELSE 0

\* lint_data['num_lint_disable'] after step 4 under the features fs, when
\* generate_lint_disable_report returned a pair
LintData(fs, o, n) ==
  IF "lint_disable_check" \in fs
  THEN (IF GenerateLint(o, n).success THEN GenerateLint(o, n).num ELSE 0)
  ELSE 0

InitMR ==
  /\ remote = <<>>
  /\ remote0 = <<>>
  /\ DiscIdle
  /\ SendIdle
  /\ RateIdle
  /\ ToolsIdle
  /\ bfa_host = TRUE
  /\ bfa_token_key = NoToken
  /\ api_timeout_ok = TRUE
  /\ project_mr = K1
  /\ hpc = "mr"
  /\ features \in SUBSET Checks
  /\ pass_score \in PassScores
  /\ postFailed = FALSE
  /\ measured = NotMeasured
  /\ summary_success = FALSE
  /\ summary_content = ""
  /\ review_success = FALSE
  /\ review_content = ""
  /\ loc_data = 0
  /\ lint_data = 0
  /\ cc_data = "empty"
  /\ ss_data = "empty"
  /\ rating_score = 0
  /\ mr_must_not_be_resolved = FALSE
  /\ report = NoReport
  /\ ran = {}
  /\ abortedAt = "none"

\* an exception leaves handle_mr at step c: main's except Exception branch
Abort(c) ==
  /\ hpc' = "error_post"
  /\ abortedAt' = c

\* the variables of the analysis pipeline proper
pipelineVars ==
  <<features, pass_score, summary_success, summary_content, review_success,
    review_content, loc_data, lint_data, cc_data, ss_data, rating_score,
    mr_must_not_be_resolved, ran, measured>>

\* gitlab.gitlab(url): "ok"; "status": a 401 or another status outside
\* (200, 201) ends the process with sys.exit(1), which no except Exception
\* catches; "raise": requests or the JSON decoder raised, re-raised to main
GitlabGet(o, here, next) ==
  /\ IF o = "ok"
     THEN /\ hpc' = next
          /\ UNCHANGED abortedAt
     ELSE IF o = "status"
     THEN /\ hpc' = "exit1"
          /\ abortedAt' = here
     ELSE Abort(here)
  /\ UNCHANGED <<report, postFailed>>
  /\ UNCHANGED pipelineVars

\* mr = gitlab.gitlab("/projects/{}/merge_requests/{}")
StepFetchMr(o) ==
  /\ hpc = "mr"
  /\ GitlabGet(o, "mr", "commits")
  /\ UNCHANGED otherThanMR

\* mrcommits = gitlab.gitlab("/projects/{}/merge_requests/{}/commits")
StepFetchCommits(o) ==
  /\ hpc = "commits"
  /\ GitlabGet(o, "commits", "git")
  /\ UNCHANGED otherThanMR

\* git init, git fetch, git checkout in the temporary directory: a non-zero
\* return code or an exception raises out of handle_mr
StepGit(o) ==
  /\ hpc = "git"
  /\ IF o = "ok"
     THEN /\ hpc' = "config"
          /\ UNCHANGED abortedAt
     ELSE Abort("git")
  /\ UNCHANGED <<report, postFailed>>
  /\ UNCHANGED pipelineVars
  /\ UNCHANGED otherThanMR

\* config = load_config(tdir), then is_feature_enabled(config, ...): a
\* .rate-my-mr.yaml whose 'features' is not a mapping makes .get raise
StepConfig(o) ==
  /\ hpc = "config"
  /\ IF o = "ok"
     THEN /\ hpc' = "diff"
          /\ UNCHANGED abortedAt
     ELSE Abort("config")
  /\ UNCHANGED <<report, postFailed>>
  /\ UNCHANGED pipelineVars
  /\ UNCHANGED otherThanMR

\* diff_file_path = create_diff_from_mr(...): a path, None when both diff
\* methods failed, or an exception other than CalledProcessError in the
\* first method
StepDiff(o) ==
  /\ hpc = "diff"
  /\ IF o = "ok"
     THEN /\ hpc' = "summary"
          /\ UNCHANGED abortedAt
     ELSE IF o = "none"
     THEN /\ hpc' = "diff_post"
          /\ UNCHANGED abortedAt
     ELSE Abort("diff")
  /\ UNCHANGED <<report, postFailed>>
  /\ UNCHANGED pipelineVars
  /\ UNCHANGED otherThanMR

\* no diff: gitlab.update_discussion(proj, mriid, HEADER, error_report, False)
\* and return
StepDiffErrorPost(o) ==
  /\ hpc = "diff_post"
  /\ IF o = "ok"
     THEN /\ report' = [kind |-> "error"]
          /\ hpc' = "exit0"
          /\ UNCHANGED <<abortedAt, postFailed>>
     ELSE IF o = "raise"
     THEN /\ Abort("diff_post")
          /\ postFailed' = TRUE
          /\ UNCHANGED report
     ELSE /\ hpc' = "exit1"
          /\ abortedAt' = "diff_post"
          /\ postFailed' = TRUE
          /\ UNCHANGED report
  /\ UNCHANGED pipelineVars
  /\ UNCHANGED otherThanMR

\* 1. Generate AI summary (if enabled)
StepSummary(o) ==
  /\ hpc = "summary"
  /\ IF "ai_summary" \in features
     THEN LET g == GenerateText(o) IN
          /\ ran' = ran \cup {"ai_summary"}
          /\ IF g.raised
             THEN /\ Abort("ai_summary")
                  /\ UNCHANGED <<summary_success, summary_content>>
             ELSE /\ summary_success' = g.success
                  /\ summary_content' = IF g.success THEN g.content ELSE ""
                  /\ hpc' = "review"
                  /\ UNCHANGED abortedAt
     ELSE /\ summary_success' = FALSE
          /\ summary_content' = ""
          /\ hpc' = "review"
          /\ UNCHANGED <<ran, abortedAt>>
  /\ UNCHANGED <<features, pass_score, review_success, review_content, loc_data, lint_data,
                 cc_data, ss_data, rating_score, mr_must_not_be_resolved, report>>
  /\ UNCHANGED <<postFailed, measured>>
  /\ UNCHANGED otherThanMR

\* 2. Generate AI code review (if enabled)
StepReview(o) ==
  /\ hpc = "review"
  /\ IF "ai_code_review" \in features
     THEN LET g == GenerateText(o) IN
          /\ ran' = ran \cup {"ai_code_review"}
          /\ IF g.raised
             THEN /\ Abort("ai_code_review")
                  /\ UNCHANGED <<review_success, review_content>>
             ELSE /\ review_success' = g.success
                  /\ review_content' = IF g.success THEN g.content ELSE ""
                  /\ hpc' = "loc"
                  /\ UNCHANGED abortedAt
     ELSE /\ review_success' = FALSE
          /\ review_content' = ""
          /\ hpc' = "loc"
          /\ UNCHANGED <<ran, abortedAt>>
  /\ UNCHANGED <<features, pass_score, summary_success, summary_content, loc_data,
                 lint_data, cc_data, ss_data, rating_score,
                 mr_must_not_be_resolved, report>>
  /\ UNCHANGED <<postFailed, measured>>
  /\ UNCHANGED otherThanMR

\* 3. Calculate LOC metrics (if enabled): calculate_loc returns (True, data)
\* or (False, str(err)), never raises
StepLoc(ok, net) ==
  /\ hpc = "loc"
  /\ IF "loc_analysis" \in features
     THEN /\ ran' = ran \cup {"loc_analysis"}
          /\ loc_data' = LocData(features, ok, net)
     ELSE /\ loc_data' = LocData(features, ok, net)
          /\ UNCHANGED ran
  /\ hpc' = "lint"
  /\ UNCHANGED <<features, pass_score, summary_success, summary_content, review_success,
                 review_content, lint_data, cc_data, ss_data, rating_score,
                 mr_must_not_be_resolved, report, abortedAt>>
  /\ UNCHANGED <<postFailed, measured>>
  /\ UNCHANGED otherThanMR

\* 4. Analyze lint disables (if enabled)
StepLint(o, n) ==
  /\ hpc = "lint"
  /\ IF "lint_disable_check" \in features
     THEN LET g == GenerateLint(o, n) IN
          /\ ran' = ran \cup {"lint_disable_check"}
          /\ IF g.ret = "none"
             THEN \* lint_success, lint_data = None: TypeError
                  /\ Abort("lint_disable_check")
                  /\ UNCHANGED lint_data
             ELSE /\ lint_data' = LintData(features, o, n)
                  /\ hpc' = "cc"
                  /\ UNCHANGED abortedAt
     ELSE /\ lint_data' = LintData(features, o, n)
          /\ hpc' = "cc"
          /\ UNCHANGED <<ran, abortedAt>>
  /\ UNCHANGED <<features, pass_score, summary_success, summary_content, review_success,
                 review_content, loc_data, cc_data, ss_data, rating_score,
                 mr_must_not_be_resolved, report>>
  /\ UNCHANGED <<postFailed, measured>>
  /\ UNCHANGED otherThanMR

\* 5. Calculate cyclomatic complexity (if enabled). analyze() returns a dict
\* when the diff has no function ("nofunc") and a pair (True, {...}) when it
\* has ("pair"), on which cc_data.get raises inside the try; "raise": the diff
\* file cannot be read
StepCc(o, avg) ==
  /\ hpc = "cc"
  /\ IF "cyclomatic_complexity" \in features
     THEN /\ ran' = ran \cup {"cyclomatic_complexity"}
          /\ cc_data' = IF o = "nofunc" THEN "avg0" ELSE "empty"
          /\ measured' = [measured EXCEPT !.cc_avg = IF o = "pair" THEN avg ELSE 0]
     ELSE /\ cc_data' = "empty"
          /\ UNCHANGED <<ran, measured>>
  /\ hpc' = "ss"
  /\ UNCHANGED postFailed
  /\ UNCHANGED <<features, pass_score, summary_success, summary_content, review_success,
                 review_content, loc_data, lint_data, ss_data, rating_score,
                 mr_must_not_be_resolved, report, abortedAt>>
  /\ UNCHANGED otherThanMR

\* 6. Security scan (if enabled). cal_ss returns None when no code file could
\* be generated ("none") and the pair of SecurityScanner.analyze otherwise
\* ("pair"), on which ss_data.get raises inside the try; "raise": cal_ss raised
StepSs(o, high, rate) ==
  /\ hpc = "ss"
  /\ IF "security_scan" \in features
     THEN /\ ran' = ran \cup {"security_scan"}
          /\ measured' = IF o = "pair"
                          THEN [measured EXCEPT !.ss_high = high, !.ss_rate = rate]
                          ELSE measured
     ELSE UNCHANGED <<ran, measured>>
  /\ ss_data' = "empty"
  /\ hpc' = "rating"
  /\ UNCHANGED postFailed
  /\ UNCHANGED <<features, pass_score, summary_success, summary_content, review_success,
                 review_content, loc_data, lint_data, cc_data, rating_score,
                 mr_must_not_be_resolved, report, abortedAt>>
  /\ UNCHANGED otherThanMR

\* the rating calculated once the complexity step has finished, before the
\* security scan
StepRating_Early ==
  /\ hpc = "ss"
  /\ rating_score' = cal_rating(loc_data, lint_data)
  /\ mr_must_not_be_resolved' = (cal_rating(loc_data, lint_data) < PassThreshold)
  /\ hpc' = "post"
  /\ UNCHANGED <<features, pass_score, summary_success, summary_content, review_success,
                 review_content, loc_data, lint_data, cc_data, ss_data, report,
                 ran, abortedAt>>
  /\ UNCHANGED <<postFailed, measured>>
  /\ UNCHANGED otherThanMR

\* 7. Calculate overall rating, 8. format_rating_report
StepRating ==
  /\ hpc = "rating"
  /\ rating_score' = cal_rating(loc_data, lint_data)
  /\ mr_must_not_be_resolved' = (cal_rating(loc_data, lint_data) < PassThreshold)
  /\ hpc' = "post"
  /\ UNCHANGED <<features, pass_score, summary_success, summary_content, review_success,
                 review_content, loc_data, lint_data, cc_data, ss_data, report,
                 ran, abortedAt>>
  /\ UNCHANGED <<postFailed, measured>>
  /\ UNCHANGED otherThanMR

\* 9. gitlab.update_discussion(proj, mriid, HEADER, report_body, ...):
\* "ok", "raise" (an exception, re-raised to main) or "exit" (sys.exit(1) of
\* gitlab.py, which except Exception does not catch)
StepPost(o) ==
  /\ hpc = "post"
  /\ IF o = "ok"
     THEN /\ report' = [kind |-> "rating", score |-> rating_score,
                        must_not_be_resolved |-> mr_must_not_be_resolved]
          /\ hpc' = "exit0"
          /\ UNCHANGED <<abortedAt, postFailed>>
     ELSE IF o = "raise"
     THEN /\ Abort("post")
          /\ postFailed' = TRUE
          /\ UNCHANGED report
     ELSE /\ hpc' = "exit1"
          /\ abortedAt' = "post"
          /\ postFailed' = TRUE
          /\ UNCHANGED report
  /\ UNCHANGED measured
  /\ UNCHANGED <<features, pass_score, summary_success, summary_content, review_success,
                 review_content, loc_data, lint_data, cc_data, ss_data,
                 rating_score, mr_must_not_be_resolved, ran>>
  /\ UNCHANGED otherThanMR

\* main, except Exception: update_discussion(.., error_report, False), then
\* sys.exit(1)
StepErrorPost(ok) ==
  /\ hpc = "error_post"
  /\ report' = IF ok THEN [kind |-> "error"] ELSE report
  /\ postFailed' = (postFailed \/ ~ok)
  /\ hpc' = "exit1"
  /\ UNCHANGED measured
  /\ UNCHANGED <<features, pass_score, summary_success, summary_content, review_success,
                 review_content, loc_data, lint_data, cc_data, ss_data,
                 rating_score, mr_must_not_be_resolved, ran, abortedAt>>
  /\ UNCHANGED otherThanMR

NextMR ==
  \/ \E o \in {"ok", "status", "raise"} : StepFetchMr(o)
  \/ \E o \in {"ok", "status", "raise"} : StepFetchCommits(o)
  \/ \E o \in {"ok", "init", "fetch", "checkout"} : StepGit(o)
  \/ \E o \in {"ok", "bad_shape"} : StepConfig(o)
  \/ \E o \in {"ok", "none", "raise"} : StepDiff(o)
  \/ \E o \in {"ok", "raise", "exit"} : StepDiffErrorPost(o)
  \/ \E o \in AiOutcomes : StepSummary(o)
  \/ \E o \in AiOutcomes : StepReview(o)
  \/ \E ok \in BOOLEAN, net \in LocValues : StepLoc(ok, net)
  \/ \E o \in LintOutcomes, n \in LintValues : StepLint(o, n)
  \/ \E o \in {"nofunc", "pair", "raise"}, avg \in CcValues : StepCc(o, avg)
  \/ \E o \in {"none", "pair", "raise"}, high \in BOOLEAN, rate \in SsRates :
        StepSs(o, high, rate)
  \/ StepRating
  \/ \E o \in {"ok", "raise", "exit"} : StepPost(o)
  \/ \E ok \in BOOLEAN : StepErrorPost(ok)

SpecMR == InitMR /\ [][NextMR]_vars

\* ------------------------------------------------------------------------
\* Claims about handle_mr (SpecMR)
\* ------------------------------------------------------------------------
\* C1 as stated: no failure of one of the six checks aborts the run: the run
\* goes on to the later checks and to the reconciliation of the rating report.
C1_ChecksNeverAbort ==
  /\ abortedAt \notin Checks
  /\ (hpc = "post" \/ abortedAt = "post" \/ report.kind = "rating")
     => ran = features

\* C17 as stated: a run that has ended has posted a rating or error report,
\* unless a reconciliation call to GitLab itself failed.
C17_ReportUnlessReconcileFails ==
  hpc \in {"exit0", "exit1"} => (report.kind # "none" \/ postFailed)

Deduct(failed, w) == IF failed THEN w ELSE 0

C20_OpenBelowPassScore ==
  report.kind = "rating" =>
    (report.must_not_be_resolved <=> report.score < pass_score)

\* ------------------------------------------------------------------------
\* CalRating (cal_rating.py) and cal_rating (rate_my_mr.py) on their own
\* ------------------------------------------------------------------------
\* RMMLimits.MAX_LOC
RmmMaxLoc == 500

\* a security finding adding a point instead of costing one
Weight_SecurityBonus(i) == <<1, 1, 2, 0 - 1>>[i]

\* RMMWeights.LINT_DISABLE, MAX_LOC, CYCLOMATIC_COMPLEXITY, SECURITY_SCAN
Weight(i) == <<1, 1, 2, 1>>[i]

\* a value on which the rate_ method raises: not a dict, or without the key
Bad == [shape |-> "bad", num |-> 0, high |-> FALSE]

Dict(n, h) == [shape |-> "dict", num |-> n, high |-> h]

\* what data can hold under each key
FactorData(i) ==
  {Absent, Bad} \cup
  (IF i = 1 THEN {Dict(n, FALSE) : n \in LintValues}
   ELSE IF i = 2 THEN {Dict(n, FALSE) : n \in LocValues}
   ELSE IF i = 3 THEN {Dict(n, FALSE) : n \in CcValues \cup {0}}
   ELSE {Dict(n, h) : n \in SsRates, h \in BOOLEAN})

\* the conditions of rate_lint_disable, rate_max_loc,
\* rate_cyclomatic_complexity, rate_security_scan
FactorFails(i, v) ==
  IF i = 1 THEN v.num > 0
  ELSE IF i = 2 THEN v.num > RmmMaxLoc
  ELSE IF i = 3 THEN v.num > CcCeiling
  ELSE v.high \/ v.num > SsTolerance

\* the indices of the keys present in data, in order
RECURSIVE PresentFrom(_, _)
PresentFrom(d, i) ==
  IF i > Len(RateFactors) THEN <<>>
  ELSE IF d[i].shape = "absent" THEN PresentFrom(d, i + 1)
  ELSE <<i>> \o PresentFrom(d, i + 1)

InitRate ==
  /\ remote = <<>>
  /\ remote0 = <<>>
  /\ DiscIdle
  /\ SendIdle
  /\ MRIdle
  /\ ToolsIdle
  /\ bfa_host = TRUE
  /\ bfa_token_key = NoToken
  /\ api_timeout_ok = TRUE
  /\ project_mr = K1
  /\ cr_pc = "idle"
  /\ cr_data \in {d \in [1..Len(RateFactors) -> UNION {FactorData(i) : i \in 1..Len(RateFactors)}] :
                    \A i \in 1..Len(RateFactors) : d[i] \in FactorData(i)}
  /\ cr_todo = <<>>
  /\ effective_rating = TotalWeight
  /\ cr_score = 0
  /\ simple_pc = "idle"
  /\ simple_args = <<0, 0>>
  /\ simple_score = 0

\* CalRating(data), cal_rating(): for factor, value in self.data.items()
CrStart ==
  /\ cr_pc = "idle"
  /\ cr_pc' = "rating"
  /\ cr_todo' = PresentFrom(cr_data, 1)
  /\ effective_rating' = TotalWeight
  /\ UNCHANGED <<cr_data, cr_score, simple_pc, simple_args, simple_score>>
  /\ UNCHANGED otherThanRate

\* one rate_<factor>(value) call: (True, None) after the deduction, or
\* (False, str(err)), on which cal_rating returns
CrRate ==
  /\ cr_pc = "rating"
  /\ cr_todo # <<>>
  /\ LET i == Head(cr_todo)
         v == cr_data[i]
     IN IF v.shape = "bad"
        THEN /\ cr_pc' = "failed"
             /\ UNCHANGED <<cr_todo, effective_rating>>
        ELSE /\ effective_rating' =
                  effective_rating - (IF FactorFails(i, v) THEN Weight(i) ELSE 0)
             /\ cr_todo' = Tail(cr_todo)
             /\ UNCHANGED cr_pc
  /\ UNCHANGED <<cr_data, cr_score, simple_pc, simple_args, simple_score>>
  /\ UNCHANGED otherThanRate

\* the "Effective rating" row: max(self.effective_rating, 0)
CrFinish ==
  /\ cr_pc = "rating"
  /\ cr_todo = <<>>
  /\ cr_score' = Max(effective_rating, 0)
  /\ cr_pc' = "done"
  /\ UNCHANGED <<cr_data, cr_todo, effective_rating, simple_pc, simple_args,
                 simple_score>>
  /\ UNCHANGED otherThanRate

\* rating_score = cal_rating(net_loc, lint_disable_count)
SimpleRating(net, lint) ==
  /\ simple_pc = "idle"
  /\ simple_args' = <<net, lint>>
  /\ simple_score' = cal_rating(net, lint)
  /\ simple_pc' = "done"
  /\ UNCHANGED <<cr_pc, cr_data, cr_todo, effective_rating, cr_score>>
  /\ UNCHANGED otherThanRate

NextRate ==
  \/ CrStart
  \/ CrRate
  \/ CrFinish
  \/ \E net \in LocValues, lint \in LintValues : SimpleRating(net, lint)

SpecRate == InitRate /\ [][NextRate]_vars

\* C18: the score of cal_rating(net_loc, lint_disable_count) and the score
\* of CalRating are integers between 0 and the total weight 5, whatever the
\* metric values and the checks present in the data.
C18_ScoreInRange ==
  /\ simple_pc = "done" => simple_score \in 0..MaxScore
  /\ cr_pc = "done" => cr_score \in 0..TotalWeight

\* all four checks present and failing: rating 0; a negative net LOC with a
\* lint suppression: score 4
C18_Witness ==
  /\ cr_pc = "done"
  /\ Len(PresentFrom(cr_data, 1)) = 4
  /\ cr_score = 0
  /\ simple_pc = "done"
  /\ simple_args[1] < 0
  /\ simple_score = 4

\* ------------------------------------------------------------------------
\* Two runs side by side: handle_mr under two feature sets, cal_rating and
\* CalRating on two inputs (SpecCmp)
\* ------------------------------------------------------------------------
\* what the diff and the AI service give to one run of the pipeline
RunInputs ==
  [sum : {"ok", "raise"}, rev : {"ok", "raise"}, loc_ok : BOOLEAN,
   net : LocValues, lint_o : {"ok", "ok_nomatch", "non200"}, lint_n : LintValues]

\* steps 1 to 7 of handle_mr under the features fs: no score when an
\* exception leaves the function, else cal_rating of the LOC and lint data
HandleMrRun(fs, in) ==
  IF \/ "ai_summary" \in fs /\ GenerateText(in.sum).raised
     \/ "ai_code_review" \in fs /\ GenerateText(in.rev).raised
     \/ "lint_disable_check" \in fs /\ GenerateLint(in.lint_o, in.lint_n).ret = "none"
  THEN [scored |-> FALSE, score |-> 0, loc |-> 0, lint |-> 0]
  ELSE [scored |-> TRUE,
        score |-> cal_rating(LocData(fs, in.loc_ok, in.net),
                             LintData(fs, in.lint_o, in.lint_n)),
        loc |-> LocData(fs, in.loc_ok, in.net),
        lint |-> LintData(fs, in.lint_o, in.lint_n)]

\* CalRating(d).cal_rating() from the item at the head of todo on
RECURSIVE RateFrom(_, _, _)
RateFrom(d, todo, eff) ==
  IF todo = <<>> THEN [ok |-> TRUE, score |-> Max(eff, 0)]
  ELSE IF d[Head(todo)].shape = "bad" THEN [ok |-> FALSE, score |-> 0]
  ELSE RateFrom(d, Tail(todo),
                eff - (IF FactorFails(Head(todo), d[Head(todo)])
                       THEN Weight(Head(todo)) ELSE 0))

CalRatingRun(d) == RateFrom(d, PresentFrom(d, 1), TotalWeight)

\* the data dictionaries CalRating can be built on
RateData ==
  {d \in [1..Len(RateFactors) -> UNION {FactorData(i) : i \in 1..Len(RateFactors)}] :
     \A i \in 1..Len(RateFactors) : d[i] \in FactorData(i)}

\* the failure predicates of cal_rating that hold of the arguments x
SimpleFailing(x) ==
  {i \in {1, 2} : IF i = 1 THEN x.lint > 0 ELSE x.net > LocCeiling}

\* the failure predicates of CalRating that hold of the data d
ClassFailing(d) ==
  {i \in 1..Len(RateFactors) : d[i].shape = "dict" /\ FactorFails(i, d[i])}

\* the data dictionaries on which cal_rating reaches the "Effective rating" row
RatedData == {d \in RateData : CalRatingRun(d).ok}

InitCmp ==
  /\ remote = <<>>
  /\ remote0 = <<>>
  /\ DiscIdle
  /\ SendIdle
  /\ MRIdle
  /\ RateIdle
  /\ ToolsIdle
  /\ bfa_host = TRUE
  /\ bfa_token_key = NoToken
  /\ api_timeout_ok = TRUE
  /\ project_mr = K1

\* the same MR analysed with the check c enabled (fs) and disabled (fs \ {c})
CompareFlag(fs, c, in) ==
  /\ cmp_pc = "idle"
  /\ c \in fs
  /\ cmp_pc' = "flag"
  /\ cmp_in' = [features |-> fs, check |-> c, in |-> in]
  /\ cmp_out' = [on |-> HandleMrRun(fs, in), off |-> HandleMrRun(fs \ {c}, in)]
  /\ UNCHANGED otherThanCmp

\* cal_rating(net_loc, lint_disable_count) on two argument pairs
CompareSimple(a, b) ==
  /\ cmp_pc = "idle"
  /\ cmp_pc' = "simple"
  /\ cmp_in' = [a |-> a, b |-> b]
  /\ cmp_out' = [a |-> cal_rating(a.net, a.lint), b |-> cal_rating(b.net, b.lint)]
  /\ UNCHANGED otherThanCmp

\* CalRating(data).cal_rating() on two data dictionaries that both give a
\* rating, the second failing at least the checks the first fails
CompareClass(a, b) ==
  /\ cmp_pc = "idle"
  /\ ClassFailing(a) \subseteq ClassFailing(b)
  /\ cmp_pc' = "class"
  /\ cmp_in' = [a |-> a, b |-> b]
  /\ cmp_out' = [a |-> CalRatingRun(a), b |-> CalRatingRun(b)]
  /\ UNCHANGED otherThanCmp

NextCmp ==
  /\ cmp_pc = "idle"
  /\ \/ \E fs \in SUBSET Checks, c \in Checks, in \in RunInputs : CompareFlag(fs, c, in)
     \/ \E a, b \in [net : LocValues, lint : LintValues] : CompareSimple(a, b)
     \/ \E a, b \in RatedData : CompareClass(a, b)

SpecCmp == InitCmp /\ [][NextCmp]_vars

\* ------------------------------------------------------------------------
\* Claims about the score under two runs (SpecCmp)
\* ------------------------------------------------------------------------
\* C21 as stated: whenever the pipeline computes a score both with a check
\* enabled and with that check disabled, on the same metric values, the two
\* scores are equal.
C21_DisablingKeepsScore ==
  (cmp_pc = "flag" /\ cmp_out.on.scored /\ cmp_out.off.scored)
    => cmp_out.off.score = cmp_out.on.score

\* C21 amended: disabling a check never lowers the score. Disabling
\* ai_summary, ai_code_review, cyclomatic_complexity or security_scan leaves
\* it unchanged; disabling loc_analysis or lint_disable_check gives back the
\* one point the enabled run deducted for that check, if it deducted it.
C21_DisablingDropsDeduction ==
  (cmp_pc = "flag" /\ cmp_out.on.scored /\ cmp_out.off.scored)
    => cmp_out.off.score =
         cmp_out.on.score
         + Deduct(cmp_in.check = "loc_analysis" /\ cmp_out.on.loc > LocCeiling, 1)
         + Deduct(cmp_in.check = "lint_disable_check" /\ cmp_out.on.lint > 0, 1)

\* an MR of 501 net lines with lint suppressions: 3 with loc_analysis
\* enabled, 4 with it disabled
C21_Witness ==
  /\ cmp_pc = "flag"
  /\ cmp_in.check = "loc_analysis"
  /\ cmp_in.features = Checks
  /\ cmp_out.on.scored
  /\ cmp_out.on.score = 3
  /\ cmp_out.off.scored
  /\ cmp_out.off.score = 4

\* C22: when the checks failing for inputs A are among the checks failing
\* for inputs B, the score of B is at most the score of A, for cal_rating
\* and for every pair of CalRating runs that produce a rating.
C22_ScoreMonotone ==
  /\ (cmp_pc = "simple" /\ SimpleFailing(cmp_in.a) \subseteq SimpleFailing(cmp_in.b))
       => cmp_out.b <= cmp_out.a
  /\ (cmp_pc = "class" /\ cmp_out.a.ok /\ cmp_out.b.ok
        /\ ClassFailing(cmp_in.a) \subseteq ClassFailing(cmp_in.b))
       => cmp_out.b.score <= cmp_out.a.score

\* complexity alone failing against complexity and security failing: 3, 2
C22_Witness ==
  /\ cmp_pc = "class"
  /\ ClassFailing(cmp_in.a) = {3}
  /\ ClassFailing(cmp_in.b) = {3, 4}
  /\ cmp_out.a.ok /\ cmp_out.a.score = 3
  /\ cmp_out.b.ok /\ cmp_out.b.score = 2

\* one lint suppression against a large MR with one: 4, 3
C22_WitnessSimple ==
  /\ cmp_pc = "simple"
  /\ SimpleFailing(cmp_in.a) = {1}
  /\ SimpleFailing(cmp_in.b) = {1, 2}
  /\ cmp_out.a = 4
  /\ cmp_out.b = 3

\* ------------------------------------------------------------------------
\* CyclomaticComplexityCalculator (cyclomatic_complexity.py): text helpers
\* ------------------------------------------------------------------------
\* \s of the re module
IsSpace(c) == c \in {" ", "\n", "\t"}

\* \w of the re module, over the characters the lines below are written in
WordChars ==
  {"a", "b", "c", "d", "e", "f", "g", "h", "i", "j", "k", "l", "m", "n", "o",
   "p", "q", "r", "s", "t", "u", "v", "w", "x", "y", "z", "_", "0", "1", "2",
   "3", "4", "5", "6", "7", "8", "9"}

IsWord(c) == c \in WordChars

Drop(s, n) == SubSeq(s, n + 1, Len(s))

\* str.lstrip()
RECURSIVE LStrip(_)
LStrip(s) ==
  IF s # <<>> /\ IsSpace(s[1]) THEN LStrip(Tail(s)) ELSE s

\* str.rstrip()
RECURSIVE RStrip(_)
RStrip(s) ==
  IF s # <<>> /\ IsSpace(s[Len(s)]) THEN RStrip(SubSeq(s, 1, Len(s) - 1)) ELSE s

\* str.strip()
Strip(s) == RStrip(LStrip(s))

\* len(code_line) - len(code_line.lstrip())
LeadingSpaces(s) == Len(s) - Len(LStrip(s))

\* the longest prefix of s made of \w characters
RECURSIVE WordPrefix(_)
WordPrefix(s) ==
  IF s # <<>> /\ IsWord(s[1]) THEN <<s[1]>> \o WordPrefix(Tail(s)) ELSE <<>>

\* "\n".join(lines)
RECURSIVE Join(_)
Join(lines) ==
  IF lines = <<>> THEN <<>>
  ELSE IF Len(lines) = 1 THEN lines[1]
  ELSE lines[1] \o <<"\n">> \o Join(Tail(lines))

\* the words of the patterns
KW_IF == <<"i", "f">>

KW_FOR == <<"f", "o", "r">>

KW_WHILE == <<"w", "h", "i", "l", "e">>

KW_ELIF == <<"e", "l", "i", "f">>

KW_CASE == <<"c", "a", "s", "e">>

KW_CATCH == <<"c", "a", "t", "c", "h">>

KW_EXCEPT == <<"e", "x", "c", "e", "p", "t">>

KW_DEF == <<"d", "e", "f">>

\* diff lines, the sign first
\* +def f():  (added, column 0)
L_ADD_DEF_F == <<"+", "d", "e", "f", " ", "f", "(", ")", ":">>

\* -def f():  (removed)
L_DEL_DEF_F == <<"-", "d", "e", "f", " ", "f", "(", ")", ":">>

\*  def f():  (context)
L_CTX_DEF_F == <<" ", "d", "e", "f", " ", "f", "(", ")", ":">>

\* +    def g(s):  (a method, added at column 4)
L_ADD_DEF_G == <<"+", " ", " ", " ", " ", "d", "e", "f", " ", "g", "(", "s", ")", ":">>

\* +        if x:  (added, column 8)
L_ADD_IF8 == <<"+", " ", " ", " ", " ", " ", " ", " ", " ", "i", "f", " ", "x", ":">>

\* -        if x:  (removed)
L_DEL_IF8 == <<"-", " ", " ", " ", " ", " ", " ", " ", " ", "i", "f", " ", "x", ":">>

\*      if x:  (context, column 4)
L_CTX_IF4 == <<" ", " ", " ", " ", " ", "i", "f", " ", "x", ":">>

\* +    y = 1  (added, column 4, not a definition)
L_ADD_Y4 == <<"+", " ", " ", " ", " ", "y", " ", "=", " ", "1">>

\* +z = 1  (added, column 0, not a definition)
L_ADD_Z0 == <<"+", "z", " ", "=", " ", "1">>

\* +  (an added blank line)
L_ADD_BLANK == <<"+">>

\* the alternatives of the first group of the decision pattern, in order
Keywords ==
  <<KW_IF, KW_FOR, KW_WHILE, KW_ELIF, KW_CASE, KW_CATCH, KW_EXCEPT>>

\* a keyword counted wherever its letters occur, inside longer words too
Boundary_Anywhere(code, i) == TRUE

\* \b at the gap before position i of code
Boundary(code, i) ==
  (i > 1 /\ i - 1 <= Len(code) /\ IsWord(code[i - 1]))
    # (i <= Len(code) /\ IsWord(code[i]))

\* \b(kw)\b matches at position i
KeywordAt(code, i, kw) ==
  /\ i + Len(kw) - 1 <= Len(code)
  /\ SubSeq(code, i, i + Len(kw) - 1) = kw
  /\ Boundary(code, i)
  /\ Boundary(code, i + Len(kw))

\* (\&\&|\|\|) matches at position i
OperatorAt(code, i) ==
  /\ i + 1 <= Len(code)
  /\ SubSeq(code, i, i + 1) \in {<<"&", "&">>, <<"|", "|">>}

\* len(re.findall(pattern, code)) from position i on: leftmost matches, the
\* scan resuming after each match
RECURSIVE FindAll(_, _)
FindAll(code, i) ==
  IF i > Len(code) THEN 0
  ELSE IF \E k \in 1..Len(Keywords) : KeywordAt(code, i, Keywords[k])
  THEN LET k == CHOOSE k \in 1..Len(Keywords) :
                  /\ KeywordAt(code, i, Keywords[k])
                  /\ \A j \in 1..(k - 1) : ~KeywordAt(code, i, Keywords[j])
       IN 1 + FindAll(code, i + Len(Keywords[k]))
  ELSE IF OperatorAt(code, i) THEN 1 + FindAll(code, i + 2)
  ELSE FindAll(code, i + 1)

\* _calculate_cc(func_body_lines)
calculate_cc(func_body_lines) == 1 + FindAll(Join(func_body_lines), 1)

\* re.match(r"^\s*def\s+(\w+)\(", raw_line): the match and its group 1
DefMatch(raw_line) ==
  LET t == LStrip(raw_line)
      u == Drop(t, 3)
      v == LStrip(u)
      name == WordPrefix(v)
  IN IF /\ StartsWith(t, KW_DEF)
        /\ u # <<>>
        /\ IsSpace(u[1])
        /\ name # <<>>
        /\ Len(v) > Len(name)
        /\ v[Len(name) + 1] = "("
     THEN [ok |-> TRUE, name |-> name]
     ELSE [ok |-> FALSE, name |-> <<>>]

\* line[1:] if line.startswith(("+", "-", " ")) else line
RawLine(line) ==
  IF line # <<>> /\ line[1] \in {"+", "-", " "} THEN Tail(line) ELSE line

\* indent_level = None, func_name = None
NoIndent == 0 - 1

NoName == <<>>

\* the locals of _extract_functions before the loop; "from" keeps, next to
\* each reconstructed line, the index of the diff line it was taken from
ExtractStart ==
  [functions |-> <<>>, inside_func |-> FALSE, current_func |-> <<>>,
   from |-> <<>>, indent_level |-> NoIndent, func_name |-> NoName]

\* functions.append((func_name, current_func))
Flushed(st) ==
  Append(st.functions,
         [name |-> st.func_name, lines |-> st.current_func, from |-> st.from])

\* one iteration of "for line in diff_lines", on line number k
ExtractStep(st, line, k) ==
  LET raw_line == RawLine(line)
      match == DefMatch(raw_line)
      leading_spaces == LeadingSpaces(raw_line)
      indent == IF st.indent_level = NoIndent THEN leading_spaces
                ELSE st.indent_level
  IN IF match.ok
     THEN [functions |-> IF st.current_func # <<>> THEN Flushed(st)
                         ELSE st.functions,
           inside_func |-> TRUE, current_func |-> <<raw_line>>,
           from |-> <<k>>, indent_level |-> NoIndent,
           func_name |-> match.name]
     ELSE IF ~st.inside_func THEN st
     ELSE IF StartsWith(line, <<"-">>) THEN st
     ELSE IF Strip(raw_line) = <<>>
     THEN [st EXCEPT !.current_func = Append(@, raw_line),
                     !.from = Append(@, k)]
     ELSE IF leading_spaces = 0 /\ ~StartsWith(Strip(raw_line), KW_DEF)
     THEN [functions |-> Flushed(st), inside_func |-> FALSE,
           current_func |-> <<>>, from |-> <<>>, indent_level |-> indent,
           func_name |-> NoName]
     ELSE [st EXCEPT !.current_func = Append(@, raw_line),
                     !.from = Append(@, k), !.indent_level = indent]

RECURSIVE ExtractLoop(_, _, _)
ExtractLoop(st, diff_lines, k) ==
  IF k > Len(diff_lines) THEN st
  ELSE ExtractLoop(ExtractStep(st, diff_lines[k], k), diff_lines, k + 1)

\* the blocks flushed inside the loop only
extract_functions_LoopOnly(diff_lines) ==
  ExtractLoop(ExtractStart, diff_lines, 1).functions

\* _extract_functions(diff_lines)
extract_functions(diff_lines) ==
  LET st == ExtractLoop(ExtractStart, diff_lines, 1)
  IN IF st.current_func # <<>> /\ st.func_name # NoName
     THEN Flushed(st) ELSE st.functions

RECURSIVE SumSeq(_)
SumSeq(q) == IF q = <<>> THEN 0 ELSE Head(q) + SumSeq(Tail(q))

\* method_wise_cc[func_name] = cc in the order of functions: the last
\* function of a name stays
MethodWiseCc(functions) ==
  [n \in {functions[j].name : j \in 1..Len(functions)} |->
     LET j == CHOOSE j \in 1..Len(functions) :
                 /\ functions[j].name = n
                 /\ \A m \in (j + 1)..Len(functions) : functions[m].name # n
     IN calculate_cc(functions[j].lines)]

\* analyze() on a readable diff file: the bare dict when no function was
\* found, else the pair (True, {...})
AnalyzeLines(diff_lines) ==
  LET functions == extract_functions(diff_lines)
      cc_values == [j \in 1..Len(functions) |-> calculate_cc(functions[j].lines)]
  IN IF functions = <<>>
     THEN [kind |-> "dict", avg_cc |-> 0, method_wise_cc |-> <<>>,
           functions |-> functions]
     ELSE [kind |-> "pair", avg_cc |-> SumSeq(cc_values) \div Len(cc_values),
           method_wise_cc |-> MethodWiseCc(functions),
           functions |-> functions]

\* open(self.diff_file, "r") raised: the exception leaves analyze()
Raised == [kind |-> "raise"]

\* the characters of the function bodies given to _calculate_cc
CodeChars == {"i", "f", " ", "&", "|"}

Codes == UNION {[1..k -> CodeChars] : k \in 0..MaxCodeLen}

\* the lines of the diff files given to analyze()
CcLines ==
  {L_ADD_DEF_F, L_DEL_DEF_F, L_CTX_DEF_F, L_ADD_DEF_G, L_ADD_IF8, L_DEL_IF8,
   L_CTX_IF4, L_ADD_Y4, L_ADD_Z0, L_ADD_BLANK}

CcDiffs == UNION {[1..k -> CcLines] : k \in 0..MaxDiffLines}

InitCc ==
  /\ remote = <<>>
  /\ remote0 = <<>>
  /\ DiscIdle
  /\ SendIdle
  /\ MRIdle
  /\ RateIdle
  /\ CmpIdle
  /\ LocIdle
  /\ SsIdle
  /\ LintIdle
  /\ ResIdle
  /\ bfa_host = TRUE
  /\ bfa_token_key = NoToken
  /\ api_timeout_ok = TRUE
  /\ project_mr = K1
  /\ cc_pc = "idle"
  /\ cc_readable \in BOOLEAN
  /\ cc_diff \in (IF cc_readable THEN CcDiffs ELSE {<<>>})
  /\ cc_ret = NoneValue
  /\ cc_code = <<>>
  /\ cc_value = 0

\* CyclomaticComplexityCalculator(diff_file).analyze()
CcAnalyze ==
  /\ cc_pc = "idle"
  /\ cc_pc' = "done"
  /\ cc_ret' = IF cc_readable THEN AnalyzeLines(cc_diff) ELSE Raised
  /\ UNCHANGED <<cc_readable, cc_diff, cc_code, cc_value>>
  /\ UNCHANGED otherThanCc

\* _calculate_cc([code]) on a function body of one line
CcCalculate(code) ==
  /\ cc_pc = "idle"
  /\ cc_readable
  /\ cc_diff = <<>>
  /\ cc_pc' = "cc"
  /\ cc_code' = code
  /\ cc_value' = calculate_cc(<<code>>)
  /\ UNCHANGED <<cc_readable, cc_diff, cc_ret>>
  /\ UNCHANGED otherThanCc

NextCc ==
  \/ CcAnalyze
  \/ /\ cc_pc = "idle"
     /\ \E code \in Codes : CcCalculate(code)

SpecCc == InitCc /\ [][NextCc]_vars

\* ------------------------------------------------------------------------
\* Claims about CyclomaticComplexityCalculator (SpecCc)
\* ------------------------------------------------------------------------
\* the maximal runs of characters of the set S in code, left to right
RECURSIVE RunsFrom(_, _, _)
RunsFrom(code, S, cur) ==
  IF code = <<>> THEN (IF cur = <<>> THEN <<>> ELSE <<cur>>)
  ELSE IF Head(code) \in S THEN RunsFrom(Tail(code), S, Append(cur, Head(code)))
  ELSE (IF cur = <<>> THEN <<>> ELSE <<cur>>) \o RunsFrom(Tail(code), S, <<>>)

Runs(code, S) == RunsFrom(code, S, <<>>)

\* the decision keywords and operators occurring in code: the words that
\* are one of the seven keywords, and the pairs && and || (a run of k
\* ampersands or bars holding k \div 2 of them)
Occurrences(code) ==
  LET words == Runs(code, WordChars)
      amps == Runs(code, {"&"})
      bars == Runs(code, {"|"})
  IN Cardinality({j \in 1..Len(words) :
                    \E k \in 1..Len(Keywords) : words[j] = Keywords[k]})
     + SumSeq([j \in 1..Len(amps) |-> Len(amps[j]) \div 2])
     + SumSeq([j \in 1..Len(bars) |-> Len(bars[j]) \div 2])

\* if &&
S_IF_AND == <<"i", "f", " ", "&", "&">>

\* C23: _calculate_cc returns 1 for a body without decision keyword and
\* operator and 1 + n for a body with n of them, and one more keyword or
\* operator added to the body raises the result by exactly 1.
C23_OnePlusOccurrences ==
  cc_pc = "cc" =>
    /\ cc_value = 1 + Occurrences(cc_code)
    /\ Occurrences(cc_code) = 0 => cc_value = 1
    /\ \A k \in 1..Len(Keywords) :
         calculate_cc(<<cc_code \o <<" ">> \o Keywords[k]>>) = cc_value + 1
    /\ calculate_cc(<<cc_code \o <<"|", "|">>>>) = cc_value + 1
    /\ calculate_cc(<<cc_code \o <<"&", "&">>>>) = cc_value + 1

\* a body with one if and one &&: complexity 3
C23_Witness ==
  /\ cc_pc = "cc"
  /\ cc_code = S_IF_AND
  /\ cc_value = 3

\* the function blocks analyze() worked on
Blocks == IF cc_pc = "done" /\ cc_ret.kind \in {"dict", "pair"}
          THEN cc_ret.functions ELSE <<>>

Removed(k) == StartsWith(cc_diff[k], <<"-">>)

Added(k) == StartsWith(cc_diff[k], <<"+">>)

\* C24 as stated: no removed line of the diff is part of a reconstructed
\* function block: none opens a block, gives a function its name or adds to
\* its complexity.
C24_NoRemovedLineInBlock ==
  \A j \in 1..Len(Blocks) :
    \A i \in 1..Len(Blocks[j].from) : ~Removed(Blocks[j].from[i])

\* the first line after the definition line d that is not removed, not
\* blank, not a definition, and indented no deeper than line d; 0 if none
ClosingLine(d) ==
  LET col == LeadingSpaces(RawLine(cc_diff[d]))
      closes(k) == /\ ~Removed(k)
                   /\ Strip(RawLine(cc_diff[k])) # <<>>
                   /\ ~DefMatch(RawLine(cc_diff[k])).ok
                   /\ LeadingSpaces(RawLine(cc_diff[k])) <= col
      after == {k \in (d + 1)..Len(cc_diff) : closes(k)}
  IN IF after = {} THEN 0 ELSE CHOOSE k \in after : \A m \in after : k <= m

\* C25 as stated: a block ends before the first non-blank, non-removed line
\* that is back at the column of the block's definition line and is not a
\* definition: neither that line nor a later one is in the block; and every
\* definition line still open at the end of the input has its block.
C25_ClosedAtEnclosingColumn ==
  /\ \A j \in 1..Len(Blocks) :
       LET d == Blocks[j].from[1]
       IN ClosingLine(d) # 0 =>
            \A i \in 1..Len(Blocks[j].from) : Blocks[j].from[i] < ClosingLine(d)
  /\ (cc_pc = "done" /\ cc_ret.kind \in {"dict", "pair"}) =>
       \A d \in 1..Len(cc_diff) :
         (~Removed(d) /\ DefMatch(RawLine(cc_diff[d])).ok)
           => \E j \in 1..Len(Blocks) : Blocks[j].from[1] = d

\* C26 as stated: every function reported in method_wise_cc has at least
\* one added line in its reconstructed block.
C26_OnlyTouchedFunctions ==
  \A j \in 1..Len(Blocks) :
    \E i \in 1..Len(Blocks[j].from) : Added(Blocks[j].from[i])

\* ------------------------------------------------------------------------
\* LOCCalculator (loc.py) (SpecLoc)
\* ------------------------------------------------------------------------
\* lines of a diff file as readlines() gives them
\* +++ b/f  (file marker of the new file)
M_NEW == <<"+", "+", "+", " ", "b", "/", "f", "\n">>

\* --- a/f  (file marker of the old file)
M_OLD == <<"-", "-", "-", " ", "a", "/", "f", "\n">>

\* +x = 1  (added code)
A_CODE == <<"+", "x", " ", "=", " ", "1", "\n">>

\* -x = 1  (removed code)
R_CODE == <<"-", "x", " ", "=", " ", "1", "\n">>

\*  x = 1  (context)
X_CODE == <<" ", "x", " ", "=", " ", "1", "\n">>

\* +# c  (added comment)
A_COMMENT == <<"+", "#", " ", "c", "\n">>

\* +  (added blank line)
A_BLANK == <<"+", "\n">>

\* -y = (  (removed, a bracket left open)
R_OPEN == <<"-", "y", " ", "=", " ", "(", "\n">>

LocLines == {M_NEW, M_OLD, A_CODE, R_CODE, X_CODE, A_COMMENT, A_BLANK, R_OPEN}

LocDiffs == UNION {[1..k -> LocLines] : k \in 0..MaxDiffLines}

\* ''.join(parts)
RECURSIVE Concat(_)
Concat(parts) == IF parts = <<>> THEN <<>> ELSE Head(parts) \o Concat(Tail(parts))

\* every '+' line counted as added and every '-' line as removed
IsFileMarker_Never(line) == FALSE

\* line.startswith('+++') or line.startswith('---')
IsFileMarker(line) ==
  StartsWith(line, <<"+", "+", "+">>) \/ StartsWith(line, <<"-", "-", "-">>)

\* the line[1:] of the lines of the file that start with sign, file markers
\* skipped, in order
RECURSIVE ModifiedParts(_, _)
ModifiedParts(file, sign) ==
  IF file = <<>> THEN <<>>
  ELSE (IF ~IsFileMarker(Head(file)) /\ StartsWith(Head(file), <<sign>>)
        THEN <<Tail(Head(file))>> ELSE <<>>)
       \o ModifiedParts(Tail(file), sign)

\* extract_modified_code(): (modified_code, removed_code)
extract_modified_code(file) ==
  [modified_code |-> Concat(ModifiedParts(file, "+")),
   removed_code |-> Concat(ModifiedParts(file, "-"))]

\* code.split("\n") without the empty piece after the last "\n"
RECURSIVE SplitLines(_, _)
SplitLines(code, cur) ==
  IF code = <<>> THEN (IF cur = <<>> THEN <<>> ELSE <<cur>>)
  ELSE IF Head(code) = "\n" THEN <<cur>> \o SplitLines(Tail(code), <<>>)
  ELSE SplitLines(Tail(code), Append(cur, Head(code)))

\* a line radon counts as source: not blank, not a comment alone
IsSourceLine(l) == Strip(l) # <<>> /\ Strip(l)[1] # "#"

CountChar(code, c) == Cardinality({i \in 1..Len(code) : code[i] = c})

\* radon.raw.analyze(code) of the radon package: the tokenizer raises on a
\* bracket left open at the end of the code, else sloc is the number of
\* source lines
RadonAnalyze(code) ==
  IF CountChar(code, "(") # CountChar(code, ")")
  THEN [ok |-> FALSE, sloc |-> 0]
  ELSE LET ls == SplitLines(code, <<>>)
       IN [ok |-> TRUE,
           sloc |-> Cardinality({i \in 1..Len(ls) : IsSourceLine(ls[i])})]

\* calculate_loc(): (True, {...}) or (False, str(err)); tmp_ok: the two
\* temporary files could be written
calculate_loc(readable, file, tmp_ok) ==
  LET code == extract_modified_code(file)
      added_lines == RadonAnalyze(code.modified_code)
      removed_lines == RadonAnalyze(code.removed_code)
  IN IF ~readable \/ ~tmp_ok \/ ~added_lines.ok \/ ~removed_lines.ok
     THEN [success |-> FALSE, error |-> "err", lines_of_code_added |-> 0,
           lines_of_code_removed |-> 0, net_lines_of_code_change |-> 0]
     ELSE [success |-> TRUE, error |-> "",
           lines_of_code_added |-> added_lines.sloc,
           lines_of_code_removed |-> removed_lines.sloc,
           net_lines_of_code_change |-> added_lines.sloc - removed_lines.sloc]

InitLoc ==
  /\ remote = <<>>
  /\ remote0 = <<>>
  /\ DiscIdle
  /\ SendIdle
  /\ MRIdle
  /\ RateIdle
  /\ CmpIdle
  /\ CcIdle
  /\ SsIdle
  /\ LintIdle
  /\ ResIdle
  /\ bfa_host = TRUE
  /\ bfa_token_key = NoToken
  /\ api_timeout_ok = TRUE
  /\ project_mr = K1
  /\ loc_readable \in BOOLEAN
  /\ loc_diff \in (IF loc_readable THEN LocDiffs ELSE {<<>>})
  /\ loc_rets = <<>>

\* LOCCalculator(diff_file).calculate_loc(), once more on the same file
CalculateLoc(tmp_ok) ==
  /\ Len(loc_rets) < MaxLocRuns
  /\ loc_rets' = Append(loc_rets, calculate_loc(loc_readable, loc_diff, tmp_ok))
  /\ UNCHANGED <<loc_readable, loc_diff>>
  /\ UNCHANGED otherThanLoc

NextLoc == \E tmp_ok \in BOOLEAN : CalculateLoc(tmp_ok)

SpecLoc == InitLoc /\ [][NextLoc]_vars

\* ------------------------------------------------------------------------
\* Claims about LOCCalculator (SpecLoc)
\* ------------------------------------------------------------------------
\* the lines of the diff with the given sign that are not file markers
SubDocument(sign) ==
  {k \in 1..Len(loc_diff) :
     /\ loc_diff[k][1] = sign
     /\ ~(StartsWith(loc_diff[k], <<"+", "+", "+">>)
          \/ StartsWith(loc_diff[k], <<"-", "-", "-">>))}

\* the line count of a sub-document: its lines that are neither blank nor
\* a comment alone
LineCount(sign) ==
  Cardinality({k \in SubDocument(sign) : IsSourceLine(Tail(loc_diff[k]))})

C28_UnreadableNeverRaises ==
  /\ (cc_pc = "done" /\ ~cc_readable) => cc_ret.kind # "raise"
  /\ ~loc_readable =>
       \A i \in 1..Len(loc_rets) :
         /\ ~loc_rets[i].success
         /\ loc_rets[i].error # ""

\* ------------------------------------------------------------------------
\* SecurityScanner (security_scan.py) (SpecSs)
\* ------------------------------------------------------------------------
\* lines of the diff file, the sign first
\* +++ b/f  (file marker)
S_MARK == <<"+", "+", "+", " ", "b", "/", "f">>

\* +def f():  (added signature, column 0)
S_DEF0 == <<"+", "d", "e", "f", " ", "f", "(", ")", ":">>

\* +    return 1  (added, column 4)
S_RET4 == <<"+", " ", " ", " ", " ", "r", "e", "t", "u", "r", "n", " ", "1">>

\* +x = 2  (added, column 0)
S_X0 == <<"+", "x", " ", "=", " ", "2">>

\* +    # c  (added comment, column 4)
S_COM4 == <<"+", " ", " ", " ", " ", "#", " ", "c">>

\* +    """d"""  (added one-line docstring, column 4)
S_DOC4 == <<"+", " ", " ", " ", " ", "\"", "\"", "\"", "d", "\"", "\"", "\"">>

\* +  (added blank line)
S_BLANK == <<"+">>

\*      y = 3  (context, column 4)
S_CTX4 == <<" ", " ", " ", " ", " ", "y", " ", "=", " ", "3">>

\* +    def g(s) -> int:  (added signature, column 4)
S_DEF4 == <<"+", " ", " ", " ", " ", "d", "e", "f", " ", "g", "(", "s", ")", " ", "-", ">", " ", "i", "n", "t", ":">>

\* +        return 2  (added, column 8)
S_RET8 == <<"+", " ", " ", " ", " ", " ", " ", " ", " ", "r", "e", "t", "u", "r", "n", " ", "2">>

\* +@param x  (added, an annotation left out of the wrapper)
S_PARAM == <<"+", "@", "p", "a", "r", "a", "m", " ", "x">>

SsLines ==
  {S_MARK, S_DEF0, S_RET4, S_X0, S_COM4, S_DOC4, S_BLANK, S_CTX4, S_DEF4,
   S_RET8, S_PARAM}

SsDiffs == UNION {[1..k -> SsLines] : k \in 0..MaxDiffLines}

TripleDouble == <<"\"", "\"", "\"">>

TripleSingle == <<"'", "'", "'">>

AT_PARAM == <<"@", "p", "a", "r", "a", "m">>

AT_RETURN == <<"@", "r", "e", "t", "u", "r", "n">>

DUMMY_DEF == <<"d", "e", "f", " ", "_", "_", "b", "a", "n", "d", "i", "t", "_", "d", "u", "m", "m", "y", "_", "_", "(", ")", ":">>

\* the longest prefix of s made of the characters of [\w\[\]]
RECURSIVE TypePrefix(_)
TypePrefix(s) ==
  IF s # <<>> /\ (IsWord(s[1]) \/ s[1] \in {"[", "]"})
  THEN <<s[1]>> \o TypePrefix(Tail(s)) ELSE <<>>

\* \s*(->\s*[\w\[\]]+\s*)?: matches at the start of t
AfterParen(t) ==
  LET u == LStrip(t)
      v == LStrip(Drop(u, 2))
      w == TypePrefix(v)
  IN \/ StartsWith(u, <<":">>)
     \/ /\ StartsWith(u, <<"-", ">">>)
        /\ w # <<>>
        /\ StartsWith(LStrip(Drop(v, Len(w))), <<":">>)

\* method_def_regex.match(stripped):
\* ^\s*def\s+(\w+)\s*\(.*\)\s*(->\s*[\w\[\]]+\s*)?:
MethodDef(stripped) ==
  LET t == LStrip(stripped)
      u == Drop(t, 3)
      v == LStrip(u)
      name == WordPrefix(v)
      w == LStrip(Drop(v, Len(name)))
  IN /\ StartsWith(t, KW_DEF)
     /\ u # <<>>
     /\ IsSpace(u[1])
     /\ name # <<>>
     /\ StartsWith(w, <<"(">>)
     /\ \E j \in 2..Len(w) : w[j] = ")" /\ AfterParen(Drop(w, j))

\* leading_spaces = len(line) - len(line.lstrip()) - 1, on the diff line
\* with its sign
LineIndent(line) == Len(line) - Len(LStrip(line)) - 1

\* the locals of extract_added_code_from_diff before the loop; "from" and
\* dummy_from keep the index of the diff line each kept line was taken from
SynthStart ==
  [code_blocks |-> <<>>, dummy_lines |-> <<>>, dummy_from |-> <<>>,
   current_method |-> <<>>, from |-> <<>>, inside_method |-> FALSE,
   inside_docstring |-> FALSE, method_indent_level |-> NoIndent]

\* current_method.append(content)
Kept(st, content, k) ==
  [st EXCEPT !.current_method = Append(@, content), !.from = Append(@, k)]

\* dummy_lines.append(stripped) unless it starts with @param or @return
Loose(st, stripped, k) ==
  IF StartsWith(stripped, AT_PARAM) \/ StartsWith(stripped, AT_RETURN) THEN st
  ELSE [st EXCEPT !.dummy_lines = Append(@, stripped),
                  !.dummy_from = Append(@, k)]

\* code_blocks.append("\n".join(current_method)); current_method = []
MethodFlushed(st) ==
  [st EXCEPT !.code_blocks = Append(@, [lines |-> st.current_method,
                                        from |-> st.from]),
             !.current_method = <<>>, !.from = <<>>]

\* one iteration of "while i < len(diff_lines)", on line number k
SynthStep(st, line, k) ==
  LET content == RStrip(Tail(line))
      stripped == Strip(content)
      leading_spaces == LineIndent(line)
  IN IF ~StartsWith(line, <<"+">>) \/ StartsWith(line, <<"+", "+", "+">>) THEN st
     ELSE IF stripped = <<>>
     THEN (IF st.inside_method THEN Kept(st, content, k) ELSE st)
     ELSE IF StartsWith(stripped, TripleDouble) \/ StartsWith(stripped, TripleSingle)
     THEN LET t == [st EXCEPT !.inside_docstring = ~@]
          IN IF st.inside_method THEN Kept(t, content, k) ELSE t
     ELSE IF st.inside_docstring /\ st.inside_method THEN Kept(st, content, k)
     ELSE IF MethodDef(stripped) /\ ~st.inside_method
     THEN LET t == IF st.current_method # <<>> THEN MethodFlushed(st) ELSE st
          IN [t EXCEPT !.inside_method = TRUE,
                       !.method_indent_level = leading_spaces,
                       !.current_method = <<content>>, !.from = <<k>>]
     ELSE IF st.inside_method
     THEN IF leading_spaces > st.method_indent_level \/ StartsWith(stripped, <<"#">>)
          THEN Kept(st, content, k)
          ELSE Loose([MethodFlushed(st) EXCEPT !.inside_method = FALSE,
                                               !.method_indent_level = NoIndent],
                     stripped, k)
     ELSE Loose(st, stripped, k)

RECURSIVE SynthLoop(_, _, _)
SynthLoop(st, diff_lines, k) ==
  IF k > Len(diff_lines) THEN st
  ELSE SynthLoop(SynthStep(st, diff_lines[k], k), diff_lines, k + 1)

\* "\n\n".join(blocks)
RECURSIVE JoinBlocks(_)
JoinBlocks(blocks) ==
  IF blocks = <<>> THEN <<>>
  ELSE IF Len(blocks) = 1 THEN blocks[1]
  ELSE blocks[1] \o <<"\n", "\n">> \o JoinBlocks(Tail(blocks))

\* [block for block in code_blocks if block.strip()]
RECURSIVE NonEmptyBlocks(_)
NonEmptyBlocks(blocks) ==
  IF blocks = <<>> THEN <<>>
  ELSE (IF Strip(Head(blocks)) # <<>> THEN <<Head(blocks)>> ELSE <<>>)
       \o NonEmptyBlocks(Tail(blocks))

\* extract_added_code_from_diff() on the lines of a readable file: the
\* methods, the lines of the dummy function and the text written to the
\* temporary .py file
extract_added_code_from_diff(diff_lines) ==
  LET st == SynthLoop(SynthStart, diff_lines, 1)
      end == IF st.current_method # <<>> THEN MethodFlushed(st) ELSE st
      methods == [j \in 1..Len(end.code_blocks) |-> Join(end.code_blocks[j].lines)]
      dummy == IF end.dummy_lines = <<>> THEN <<>>
               ELSE <<DUMMY_DEF \o <<"\n">>
                      \o Join([j \in 1..Len(end.dummy_lines) |->
                                 <<" ", " ", " ", " ">> \o end.dummy_lines[j]])>>
  IN [kind |-> "path", code_blocks |-> end.code_blocks,
      dummy_lines |-> end.dummy_lines, dummy_from |-> end.dummy_from,
      final_code |-> JoinBlocks(NonEmptyBlocks(methods \o dummy)) \o <<"\n">>]

\* except FileNotFoundError: return ""
EmptyPath == [kind |-> "empty"]

\* bandit's exit codes, and a process ended by a signal
ExitCodes == {0, 1, 2, 0 - 9}

Severities == {"HIGH", "LOW", "UNDEFINED"}

\* the JSON reports bandit can print: the severities of results[] and the
\* loc of metrics
BanditReports ==
  [results : UNION {[1..k -> Severities] : k \in 0..2}, loc : {0, 200}]

\* what subprocess.run(["bandit", ...]) does: raises, or returns a return
\* code with stdout that is a JSON report or other text
BanditOutcomes ==
  {[launch |-> "raise"]}
  \cup [launch : {"ok"}, returncode : ExitCodes, json : BOOLEAN, report : BanditReports]

ZeroFilled(errors) ==
  [avg_security_scan_value |-> <<0, 1>>,
   severity_count |-> [HIGH |-> 0, MEDIUM |-> 0, LOW |-> 0],
   errors |-> errors]

\* only a clean run taken as a normal exit
NormalExit_CleanOnly(returncode) == returncode = 0

\* result.returncode in (0, 1)
NormalExit(returncode) == returncode \in {0, 1}

\* _run_bandit(): (success, data)
run_bandit(target, o) ==
  IF ~target THEN [success |-> FALSE, data |-> ZeroFilled(<<>>)]
  ELSE IF o.launch = "raise"
  THEN [success |-> FALSE, data |-> ZeroFilled(<<"str(e)">>)]
  ELSE IF NormalExit(o.returncode)
  THEN IF o.json THEN [success |-> TRUE, data |-> o.report]
       ELSE [success |-> FALSE, data |-> ZeroFilled(<<"stdout">>)]
  ELSE [success |-> FALSE, data |-> ZeroFilled(<<"stderr">>)]

CountSeverity(results, sev) ==
  Cardinality({j \in 1..Len(results) : results[j] = sev})

\* analyze(): (success, result); avg_security_scan_value is kept as the
\* pair <<total_issues, loc>> of the division
analyze(target, o) ==
  LET r == run_bandit(target, o)
  IN IF ~r.success
     THEN [kind |-> "pair", success |-> FALSE,
           avg_security_scan_value |-> <<0, 1>>,
           severity_count |-> [HIGH |-> 0, MEDIUM |-> 0, LOW |-> 0],
           security_report |-> r.data]
     ELSE LET severity_count ==
                [HIGH |-> CountSeverity(r.data.results, "HIGH"),
                 MEDIUM |-> CountSeverity(r.data.results, "MEDIUM"),
                 LOW |-> CountSeverity(r.data.results, "LOW")]
              loc == IF r.data.loc = 0 THEN 1 ELSE r.data.loc
          IN [kind |-> "pair", success |-> TRUE,
              avg_security_scan_value |->
                <<severity_count.HIGH + severity_count.MEDIUM + severity_count.LOW,
                  loc>>,
              severity_count |-> severity_count,
              security_report |-> r.data]

InitSs ==
  /\ remote = <<>>
  /\ remote0 = <<>>
  /\ DiscIdle
  /\ SendIdle
  /\ MRIdle
  /\ RateIdle
  /\ CmpIdle
  /\ CcIdle
  /\ LocIdle
  /\ LintIdle
  /\ ResIdle
  /\ bfa_host = TRUE
  /\ bfa_token_key = NoToken
  /\ api_timeout_ok = TRUE
  /\ project_mr = K1
  /\ ss_pc = "idle"
  /\ ss_file \in {"ok", "missing", "denied"}
  /\ ss_diff \in (IF ss_file = "ok" THEN SsDiffs ELSE {<<>>})
  /\ ss_ext = NoneValue
  /\ ss_target \in BOOLEAN
  /\ ss_bandit = NoneValue
  /\ ss_ret = NoneValue

\* SecurityScanner(diff_file).extract_added_code_from_diff()
SsExtract ==
  /\ ss_pc = "idle"
  /\ ss_target
  /\ ss_pc' = "extracted"
  /\ ss_ext' = IF ss_file = "ok" THEN extract_added_code_from_diff(ss_diff)
               ELSE IF ss_file = "missing" THEN EmptyPath
               ELSE Raised
  /\ UNCHANGED <<ss_file, ss_diff, ss_target, ss_bandit, ss_ret>>
  /\ UNCHANGED otherThanSs

\* SecurityScanner(target).analyze(), bandit behaving as o
SsAnalyze(o) ==
  /\ ss_pc = "idle"
  /\ ss_diff = <<>>
  /\ ss_file = "ok"
  /\ ss_pc' = "analyzed"
  /\ ss_bandit' = o
  /\ ss_ret' = analyze(ss_target, o)
  /\ UNCHANGED <<ss_file, ss_diff, ss_target, ss_ext>>
  /\ UNCHANGED otherThanSs

NextSs ==
  \/ SsExtract
  \/ /\ ss_pc = "idle"
     /\ \E o \in BanditOutcomes : SsAnalyze(o)

SpecSs == InitSs /\ [][NextSs]_vars

\* C29: analyze() never raises; it succeeds exactly when bandit was
\* launched, exited with 0 or 1 and printed a JSON report; on any other
\* exit code, on output that is not JSON and on a failure to launch it
\* returns False with the zero-filled result, whose security_report carries
\* the raw diagnostic: stderr, stdout and str(e) respectively.
C29_ScanFailureIsReturned ==
  ss_pc = "analyzed" =>
    LET o == ss_bandit
        launched == ss_target /\ o.launch = "ok"
        normal == launched /\ o.returncode \in {0, 1} /\ o.json
    IN /\ ss_ret.kind = "pair"
       /\ ss_ret.success <=> normal
       /\ ~normal =>
            /\ ss_ret.avg_security_scan_value[1] = 0
            /\ ss_ret.severity_count = [HIGH |-> 0, MEDIUM |-> 0, LOW |-> 0]
            /\ ss_ret.security_report.avg_security_scan_value[1] = 0
            /\ ss_ret.security_report.severity_count
                 = [HIGH |-> 0, MEDIUM |-> 0, LOW |-> 0]
       /\ (ss_target /\ o.launch = "raise") =>
            ss_ret.security_report.errors = <<"str(e)">>
       /\ (launched /\ o.returncode \notin {0, 1}) =>
            ss_ret.security_report.errors = <<"stderr">>
       /\ (launched /\ o.returncode \in {0, 1} /\ ~o.json) =>
            ss_ret.security_report.errors = <<"stdout">>

\* bandit exited with 1 and printed text that is not JSON: the scan is
\* reported as failed, with stdout as the diagnostic
C29_Witness ==
  /\ ss_pc = "analyzed"
  /\ ss_target
  /\ ss_bandit.launch = "ok"
  /\ ss_bandit.returncode = 1
  /\ ~ss_bandit.json
  /\ ~ss_ret.success
  /\ ss_ret.security_report.errors = <<"stdout">>

\* bandit exited with 1 and printed a report with a finding: success
C29_WitnessFindings ==
  /\ ss_pc = "analyzed"
  /\ ss_target
  /\ ss_bandit.launch = "ok"
  /\ ss_bandit.returncode = 1
  /\ ss_bandit.json
  /\ ss_ret.success
  /\ ss_ret.severity_count.HIGH = 1

\* the column of the text of a diff line, its sign left out
Column(line) == Len(Tail(line)) - Len(LStrip(Tail(line)))

\* an added line with text on it
AddedText(line) ==
  /\ StartsWith(line, <<"+">>)
  /\ ~StartsWith(line, <<"+", "+", "+">>)
  /\ Strip(Tail(line)) # <<>>

\* the lines after signature k up to the first added line at or left of
\* the column of the signature
BodyRange(d, k) ==
  {j \in (k + 1)..Len(d) :
     \A i \in (k + 1)..j : AddedText(d[i]) => Column(d[i]) > Column(d[k])}

\* C30: for each added line recognised as a definition signature, every
\* following added line indented deeper than the signature, up to the first
\* added line at or left of the signature's column, is in the block of that
\* definition with its indentation kept, and is not among the lines of the
\* synthetic wrapper.
C30_BodyStaysInDefinition ==
  (ss_pc = "extracted" /\ ss_file = "ok") =>
    \A b \in 1..Len(ss_ext.code_blocks) :
      LET blk == ss_ext.code_blocks[b]
          k == blk.from[1]
      IN \A j \in BodyRange(ss_diff, k) :
           AddedText(ss_diff[j]) =>
             /\ \E p \in 1..Len(blk.from) :
                  /\ blk.from[p] = j
                  /\ blk.lines[p] = RStrip(Tail(ss_diff[j]))
             /\ \A q \in 1..Len(ss_ext.dummy_from) : ss_ext.dummy_from[q] # j

\* an added line of the diff, file markers left out
AddedLine(line) ==
  StartsWith(line, <<"+">>) /\ ~StartsWith(line, <<"+", "+", "+">>)

\* C31: extract_added_code_from_diff reports failure (the empty path, or an
\* exception) instead of returning the path of a written unit when the diff
\* file cannot be read and when the diff holds no added line.
C31_EmptyInputReportsFailure ==
  ss_pc = "extracted" =>
    ((ss_file # "ok" \/ \A k \in 1..Len(ss_diff) : ~AddedLine(ss_diff[k]))
       => ss_ext.kind \in {"empty", "raise"})

\* ------------------------------------------------------------------------
\* send_request with one attempt more than MaxRetriesArg (SpecBackoff)
\* ------------------------------------------------------------------------
\* calls of send_request(payload, url, max_retries) with the default and with
\* the longest retry loop of the model, through rate_my_mr.send_request and
\* through the adapter
NextBackoff ==
  \/ \E entry \in {"rate_my_mr", "llm_adapter"},
        mr \in {0, MaxRetriesArg + 1}, tokResp \in TokenResponses :
        SendRequest(entry, mr, TRUE, tokResp)
  \/ \E resp \in Responses : Attempt(resp)

SpecBackoff == InitSend /\ [][NextBackoff]_vars

\* C32: within one call the i-th sleep lasts 2^i seconds (2, 4, 8, ...): the
\* first sleep is 2 s and each later one is twice the one before, so the
\* durations are strictly increasing; there is exactly one sleep before each
\* attempt but the first, hence none before the first attempt and none after
\* the last one.
C32_ExponentialBackoff ==
  /\ Len(sleeps) = (IF resps = <<>> THEN 0 ELSE Len(resps) - 1)
  /\ Len(sleeps) >= 1 => sleeps[1] = 2
  /\ \A i \in 1..(Len(sleeps) - 1) :
       /\ sleeps[i + 1] = 2 * sleeps[i]
       /\ sleeps[i + 1] > sleeps[i]

\* four attempts, the call over: 2 s, 4 s and 8 s were slept
C32_Witness ==
  /\ spc = "returned"
  /\ Len(resps) = 4
  /\ sleeps = <<2, 4, 8>>

\* ------------------------------------------------------------------------
\* generate_lint_disable_report on a diff file (SpecLint)
\* ------------------------------------------------------------------------
\* lines of the diff of one function f
\* " def f():"
D_CTX_DEF == <<" ", "d", "e", "f", " ", "f", "(", ")", ":">>

\* "+    # pylint: disable=W0611"
D_ADD_DISABLE == <<"+", " ", " ", " ", " ", "#", " ", "p", "y", "l", "i", "n", "t", ":", " ", "d", "i", "s", "a", "b", "l", "e", "=", "W", "0", "6", "1", "1">>

\* "-    # pylint: disable=W0611"
D_DEL_DISABLE == <<"-", " ", " ", " ", " ", "#", " ", "p", "y", "l", "i", "n", "t", ":", " ", "d", "i", "s", "a", "b", "l", "e", "=", "W", "0", "6", "1", "1">>

\* "+    y = 1"
D_ADD_CODE == <<"+", " ", " ", " ", " ", "y", " ", "=", " ", "1">>

PYLINT_DISABLE == <<"#", " ", "p", "y", "l", "i", "n", "t", ":", " ", "d", "i", "s", "a", "b", "l", "e", "=", "W", "0", "6", "1", "1">>

LintLines == {D_CTX_DEF, D_ADD_DISABLE, D_DEL_DISABLE, D_ADD_CODE}

LintDiffs == UNION {[1..k -> LintLines] : k \in 0..MaxDiffLines}

InitLint ==
  /\ remote = <<>>
  /\ remote0 = <<>>
  /\ DiscIdle
  /\ SendIdle
  /\ MRIdle
  /\ RateIdle
  /\ CmpIdle
  /\ CcIdle
  /\ LocIdle
  /\ SsIdle
  /\ ResIdle
  /\ bfa_host = TRUE
  /\ bfa_token_key = NoToken
  /\ api_timeout_ok = TRUE
  /\ project_mr = K1
  /\ lint_pc = "idle"
  /\ lint_diff \in LintDiffs
  /\ lint_answer = NoneValue
  /\ lint_ret = NoneValue

\* generate_lint_disable_report(file_path): the diff text goes into the
\* payload of send_request; the result is taken from the answer of the LLM,
\* o, whose JSON summary states num_lint_disable = n
LintReport(o, n) ==
  /\ lint_pc = "idle"
  /\ lint_pc' = "done"
  /\ lint_answer' = [outcome |-> o, num_lint_disable |-> n]
  /\ lint_ret' = GenerateLint(o, n)
  /\ UNCHANGED lint_diff
  /\ UNCHANGED otherThanLint

NextLint == \E o \in LintOutcomes, n \in LintValues : LintReport(o, n)

SpecLint == InitLint /\ [][NextLint]_vars

\* the lines of diff d with sign c that hold a pylint disable directive
Directives(d, c) ==
  {k \in 1..Len(d) : d[k][1] = c /\ Strip(Tail(d[k])) = PYLINT_DISABLE}

\* C33: for a diff in which the suppression directive of function f is added
\* as often as it is removed, a report that was produced states
\* num_lint_disable = 0.
C33_NetCancellation ==
  (/\ lint_pc = "done"
   /\ lint_ret.ret = "pair"
   /\ lint_ret.success
   /\ Directives(lint_diff, "+") # {}
   /\ Cardinality(Directives(lint_diff, "+"))
        = Cardinality(Directives(lint_diff, "-")))
  => lint_ret.num = 0

\* C34: a call of send_request that has returned gives status 200 only
\* together with a response envelope, and gives every error message with a
\* status other than 200 (a number or None).
C34_OkOnlyWithEnvelope ==
  spc = "returned" =>
    /\ result.status = 200 => result.kind = "content"
    /\ result.kind = "error" => result.status # 200

\* this step is a call of send_request through the adapter that had to
\* acquire a token and could not: PROJECT_ID or MR_IID unset, or the token
\* endpoint failed or answered without a token
AcquisitionFails ==
  /\ calls' = calls + 1
  /\ mode' = "adapter"
  /\ adapter_instance'
  /\ bfa_token_key = NoToken
  /\ ~(session_token # NoToken /\ token_project_mr = CurrentProjectMr)
  /\ \/ ~HasProjectAndMr
     \/ /\ Len(tokenLog') = Len(tokenLog) + 1
        /\ tokenLog'[Len(tokenLog')] # "ok"

\* C35: a call whose token acquisition fails posts nothing to the LLM
\* endpoint, leaves the cached token and its owner key as they were, asks the
\* token endpoint at most once and returns (None, error message).
C35_FailedAcquisition ==
  [][AcquisitionFails =>
       /\ spc' = "returned"
       /\ result' = [status |-> NoStatus, kind |-> "error"]
       /\ posts' = 0
       /\ resps' = <<>>
       /\ session_token' = session_token
       /\ token_project_mr' = token_project_mr
       /\ Len(tokenLog') <= Len(tokenLog) + 1
       /\ callTokenCalls' <= 1]_vars

\* a call for another MR than the one the cached token belongs to, answered
\* by the token endpoint without a token: returned with the cache as it was
C35_Witness ==
  /\ spc = "returned"
  /\ mode = "adapter"
  /\ posts = 0
  /\ result = [status |-> NoStatus, kind |-> "error"]
  /\ callTokenCalls = 1
  /\ tokenLog # <<>>
  /\ tokenLog[Len(tokenLog)] = "no_token"
  /\ session_token # NoToken
  /\ token_project_mr # CurrentProjectMr

\* ------------------------------------------------------------------------
\* A run of main that fails before the analysis, with the reconciliation of
\* its error report on the threads of the MR (SpecErr)
\* ------------------------------------------------------------------------
\* the text of handle_mr's "Unable to generate diff" report
DIFF_ERROR_REPORT == <<"d">>

\* the text of main's "An error occurred during MR analysis" report
MAIN_ERROR_REPORT == <<"e">>

\* the error report posted as must-remain-open
ErrorMustNotBeResolved_Open == TRUE

\* the last argument of both error posts:
\* gitlab.update_discussion(proj, mriid, HEADER, error_report, False)
ErrorMustNotBeResolved == FALSE

InitErr ==
  /\ remote \in InitRemote
  /\ remote0 = remote
  /\ DiscIdle
  /\ SendIdle
  /\ RateIdle
  /\ ToolsIdle
  /\ bfa_host = TRUE
  /\ bfa_token_key = NoToken
  /\ api_timeout_ok = TRUE
  /\ project_mr = K1
  /\ hpc = "mr"
  /\ features = Checks
  /\ pass_score = PassThreshold
  /\ postFailed = FALSE
  /\ measured = NotMeasured
  /\ summary_success = FALSE
  /\ summary_content = ""
  /\ review_success = FALSE
  /\ review_content = ""
  /\ loc_data = 0
  /\ lint_data = 0
  /\ cc_data = "empty"
  /\ ss_data = "empty"
  /\ rating_score = 0
  /\ mr_must_not_be_resolved = FALSE
  /\ report = NoReport
  /\ ran = {}
  /\ abortedAt = "none"

\* the calls of update_discussion this run has to have made at hpc: main's
\* error post is the second call when the first, handle_mr's, raised
ErrorCallsDue ==
  IF hpc = "error_post" /\ abortedAt \in {"diff_post", "post"} THEN 2 ELSE 1

\* handle_mr without a diff, or main after an exception, calls
\* gitlab.update_discussion(proj, mriid, HEADER, error_report, False)
ErrorReportCall ==
  /\ hpc \in {"diff_post", "error_post"}
  /\ runs["p1"] < ErrorCallsDue
  /\ BeginUpdate("p1",
                 IF hpc = "diff_post" THEN DIFF_ERROR_REPORT ELSE MAIN_ERROR_REPORT,
                 ErrorMustNotBeResolved)

\* update_discussion has returned, raised or ended the process
ErrorReportDone ==
  /\ hpc \in {"diff_post", "error_post"}
  /\ runs["p1"] = ErrorCallsDue
  /\ pc["p1"] \in {"done", "exited"}
  /\ IF hpc = "error_post" THEN StepErrorPost(pc["p1"] = "done")
     ELSE IF pc["p1"] = "done" THEN StepDiffErrorPost("ok")
     ELSE \E o \in {"raise", "exit"} : StepDiffErrorPost(o)

NextErr ==
  \/ \E o \in {"ok", "status", "raise"} : StepFetchMr(o)
  \/ \E o \in {"ok", "status", "raise"} : StepFetchCommits(o)
  \/ \E o \in {"ok", "init", "fetch", "checkout"} : StepGit(o)
  \/ \E o \in {"ok", "bad_shape"} : StepConfig(o)
  \/ \E o \in {"ok", "none", "raise"} : StepDiff(o)
  \/ ErrorReportCall
  \/ \E ok \in BOOLEAN : Fetch("p1", ok)
  \/ \E ok \in BOOLEAN : UpdateNoteBody("p1", ok)
  \/ \E ok \in BOOLEAN : Resolve("p1", ok)
  \/ \E ok \in BOOLEAN : CreateNote("p1", ok)
  \/ ErrorReportDone

SpecErr == InitErr /\ [][NextErr]_vars

\* C36: a run that posted an error report called update_discussion with the
\* header sentinel and must_not_be_resolved = False, and on every owned note
\* it fetched unresolved with another body it rewrote the body and then
\* resolved the thread.
C36_ErrorReportResolves ==
  (hpc \in {"exit0", "exit1"} /\ report.kind = "error") =>
    /\ pc["p1"] = "done"
    /\ body["p1"] \in {HEADER \o DIFF_ERROR_REPORT, HEADER \o MAIN_ERROR_REPORT}
    /\ ~must_not_be_resolved["p1"]
    /\ \A k \in OwnedAt("p1") :
         (~SeenNote("p1", k).resolved /\ SeenNote("p1", k).body # body["p1"])
         => /\ OpNames("p1", k) = <<"body", "resolve">>
            /\ NowNote("p1", k).body = body["p1"]
            /\ NowNote("p1", k).resolved

\* handle_mr raised while creating the diff; the open thread of an earlier
\* report now carries main's error report and is resolved
C36_Witness ==
  /\ hpc = "exit1"
  /\ abortedAt = "diff"
  /\ report.kind = "error"
  /\ \E k \in OwnedAt("p1") :
       /\ ~SeenNote("p1", k).resolved
       /\ SeenNote("p1", k).body = HEADER \o <<"a">>
       /\ NowNote("p1", k).body = HEADER \o MAIN_ERROR_REPORT
       /\ NowNote("p1", k).resolved

\* no diff could be created: handle_mr's own error report, same outcome
C36_WitnessNoDiff ==
  /\ hpc = "exit0"
  /\ report.kind = "error"
  /\ \E k \in OwnedAt("p1") :
       /\ ~SeenNote("p1", k).resolved
       /\ NowNote("p1", k).body = HEADER \o DIFF_ERROR_REPORT
       /\ NowNote("p1", k).resolved

\* ------------------------------------------------------------------------
\* A whole run of main with the reconciliation of its report on the threads
\* of the MR (SpecPost)
\* ------------------------------------------------------------------------
\* the end of the report text: the "QUALITY ISSUES IDENTIFIED" banner
REPORT_BLOCKED == <<"b">>

\* the end of the report text: "Quality assessment passed"
REPORT_PASSED == <<"a">>

\* format_rating_report: the body for the must_not_be_resolved it computed
FormatBody(mnbr) == IF mnbr THEN REPORT_BLOCKED ELSE REPORT_PASSED

\* step 9: gitlab.update_discussion(proj, mriid, HEADER, report_body,
\* must_not_be_resolved)
RatingReportCall ==
  /\ hpc = "post"
  /\ runs["p1"] < 1
  /\ BeginUpdate("p1", FormatBody(mr_must_not_be_resolved), mr_must_not_be_resolved)

\* update_discussion has returned, raised or ended the process
RatingReportDone ==
  /\ hpc = "post"
  /\ runs["p1"] = 1
  /\ pc["p1"] \in {"done", "exited"}
  /\ IF pc["p1"] = "done" THEN StepPost("ok")
     ELSE \E o \in {"raise", "exit"} : StepPost(o)

NextPost ==
  \/ \E o \in {"ok", "status", "raise"} : StepFetchMr(o)
  \/ \E o \in {"ok", "status", "raise"} : StepFetchCommits(o)
  \/ \E o \in {"ok", "init", "fetch", "checkout"} : StepGit(o)
  \/ \E o \in {"ok", "bad_shape"} : StepConfig(o)
  \/ \E o \in {"ok", "none", "raise"} : StepDiff(o)
  \/ \E o \in AiOutcomes : StepSummary(o)
  \/ \E o \in AiOutcomes : StepReview(o)
  \/ \E ok \in BOOLEAN, net \in LocValues : StepLoc(ok, net)
  \/ \E o \in LintOutcomes, n \in LintValues : StepLint(o, n)
  \/ \E o \in {"nofunc", "pair", "raise"}, avg \in CcValues : StepCc(o, avg)
  \/ \E o \in {"none", "pair", "raise"}, high \in BOOLEAN, rate \in SsRates :
        StepSs(o, high, rate)
  \/ StepRating
  \/ RatingReportCall
  \/ ErrorReportCall
  \/ \E ok \in BOOLEAN : Fetch("p1", ok)
  \/ \E ok \in BOOLEAN : UpdateNoteBody("p1", ok)
  \/ \E ok \in BOOLEAN : Resolve("p1", ok)
  \/ \E ok \in BOOLEAN : CreateNote("p1", ok)
  \/ RatingReportDone
  \/ ErrorReportDone

SpecPost == InitErr /\ [][NextPost]_vars

\* C37: the rating handed to the report is 3, 4 or 5 and must_not_be_resolved
\* is False on every run: the run never reaches the unresolve request, never
\* issues one, and neither sends nor leaves on the MR a report ending in the
\* must-remain-open banner.
C37_NeverBlocks ==
  /\ ~mr_must_not_be_resolved
  /\ (hpc = "post" \/ report.kind = "rating") => rating_score \in {3, 4, 5}
  /\ report.kind = "rating" => ~report.must_not_be_resolved
  /\ pc["p1"] # "unresolve"
  /\ ~must_not_be_resolved["p1"]
  /\ \A i \in 1..Len(ops["p1"]) : ops["p1"][i].op # "unresolve"
  /\ body["p1"] # HEADER \o REPORT_BLOCKED
  /\ \A k \in 1..Len(remote) : \A n \in 1..Len(remote[k].notes) :
       remote[k].notes[n].body # HEADER \o REPORT_BLOCKED

\* both deductions, the report posted on an MR whose owned thread was
\* resolved: score 3, the thread still resolved
C37_Witness ==
  /\ hpc = "exit0"
  /\ report.kind = "rating"
  /\ loc_data > LocCeiling
  /\ lint_data > 0
  /\ report.score = 3
  /\ \E k \in OwnedAt("p1") :
       /\ SeenNote("p1", k).resolved
       /\ NowNote("p1", k).resolved

\* ------------------------------------------------------------------------
\* handle_mr steps 5 and 6: what reaches the report of the result of cal_cc
\* and cal_ss (SpecRes)
\* ------------------------------------------------------------------------
\* cc_data = {} / ss_data = {}
EmptyDict == [kind |-> "empty"]

\* `if cc_data:` / `if ss_data:`: None and {} are false, a tuple of two and a
\* dictionary with keys are true
Truthy(ret) == ret.kind \in {"pair", "dict"}

\* the second member of the pair taken as the result
Guarded_Unpacked(ret) ==
  IF ret.kind = "raise" THEN EmptyDict
  ELSE IF ~Truthy(ret) THEN EmptyDict
  ELSE ret

\* the try block around cal_cc / cal_ss: an exception of the call, and the
\* AttributeError of .get on a tuple, end in the except branch; a false
\* result takes the else branch; a dictionary is kept
Guarded(ret) ==
  IF ret.kind = "raise" THEN EmptyDict
  ELSE IF ~Truthy(ret) THEN EmptyDict
  ELSE IF ret.kind = "pair" THEN EmptyDict
  ELSE ret

\* the inputs: a diff file for cal_cc, readable or not; for cal_ss whether
\* generate_added_code_file produced a code file and how bandit behaves
ResInputs ==
  {[tool |-> "cc", readable |-> r, diff |-> d] :
     r \in BOOLEAN, d \in CcDiffs}
  \cup {[tool |-> "ss", generated |-> g, bandit |-> o] :
          g \in BOOLEAN, o \in BanditOutcomes}

InitRes ==
  /\ remote = <<>>
  /\ remote0 = <<>>
  /\ DiscIdle
  /\ SendIdle
  /\ MRIdle
  /\ RateIdle
  /\ CmpIdle
  /\ CcIdle
  /\ LocIdle
  /\ SsIdle
  /\ LintIdle
  /\ bfa_host = TRUE
  /\ bfa_token_key = NoToken
  /\ api_timeout_ok = TRUE
  /\ project_mr = K1
  /\ res_pc = "idle"
  /\ res_in \in ResInputs
  /\ res_ret = NoneValue
  /\ res_data = NoneValue

\* cal_cc(file_path): CyclomaticComplexityCalculator(file_path).analyze()
cal_cc ==
  /\ res_pc = "idle"
  /\ res_in.tool = "cc"
  /\ res_pc' = "returned"
  /\ res_ret' = IF res_in.readable THEN AnalyzeLines(res_in.diff) ELSE Raised
  /\ UNCHANGED <<res_in, res_data>>
  /\ UNCHANGED otherThanRes

\* cal_ss(file_path): SecurityScanner(result).analyze() when
\* generate_added_code_file returned ok, else the function ends without a
\* return statement
cal_ss ==
  /\ res_pc = "idle"
  /\ res_in.tool = "ss"
  /\ res_pc' = "returned"
  /\ res_ret' = IF res_in.generated THEN analyze(TRUE, res_in.bandit) ELSE NoneValue
  /\ UNCHANGED <<res_in, res_data>>
  /\ UNCHANGED otherThanRes

\* the rest of the try block of step 5 / step 6
ResGuard ==
  /\ res_pc = "returned"
  /\ res_pc' = "handled"
  /\ res_data' = Guarded(res_ret)
  /\ UNCHANGED <<res_in, res_ret>>
  /\ UNCHANGED otherThanRes

NextRes ==
  \/ cal_cc
  \/ cal_ss
  \/ ResGuard

SpecRes == InitRes /\ [][NextRes]_vars

C38_WitnessSs ==
  /\ res_pc = "handled"
  /\ res_in.tool = "ss"
  /\ res_ret.kind = "pair"
  /\ res_ret.success
  /\ res_ret.severity_count.HIGH > 0
  /\ res_data = EmptyDict

\* the zero dictionary of a diff without a function reaches the report
C38_WitnessZero ==
  /\ res_pc = "handled"
  /\ res_in.tool = "cc"
  /\ Len(res_in.diff) > 0
  /\ res_data = res_ret
  /\ res_data.kind = "dict"

\* the positions of a run of handle_mr that meets no failure, in the order
\* of the code
Order ==
  <<"mr", "commits", "git", "config", "diff", "summary", "review", "loc",
    "lint", "cc", "ss", "rating", "post">>

Pos(p) == CHOOSE i \in 1..Len(Order) : Order[i] = p

\* the step of handle_mr that runs a check
StepOf ==
  [c \in Checks |->
     IF c = "ai_summary" THEN "summary"
     ELSE IF c = "ai_code_review" THEN "review"
     ELSE IF c = "loc_analysis" THEN "loc"
     ELSE IF c = "lint_disable_check" THEN "lint"
     ELSE IF c = "cyclomatic_complexity" THEN "cc"
     ELSE "ss"]

\* the enabled checks whose step comes before position p
Before(p) == {c \in features : Pos(StepOf[c]) < Pos(p)}

OnOrder(p) == \E i \in 1..Len(Order) : Order[i] = p

\* the two AI text calls of steps 1 and 2
AiTextChecks == {"ai_summary", "ai_code_review"}

\* the metric extractors that work on the diff file alone
LocalExtractors == {"loc_analysis", "cyclomatic_complexity"}

\* aggregation happens after every check has finished
AggregatesLast ==
  (hpc = "post" \/ rating_score # 0) => ran = features

\* reconciliation is the last step: it starts at a posting position
ReconcilesLast ==
  (runs["p1"] > 0 \/ pc["p1"] # "idle")
    => hpc \in {"post", "diff_post", "error_post", "exit0", "exit1"}

\* C39 as stated: no AI call is issued before the local metric extractors
\* have run, aggregation happens after every check has finished and
\* reconciliation is the last step.
C39_MetricsBeforeAi ==
  /\ (ran \cap AiTextChecks # {}) => LocalExtractors \subseteq ran
  /\ AggregatesLast
  /\ ReconcilesLast

\* C39 (amended): handle_mr runs as one strictly sequential pipeline in the
\* order diff retrieval, AI summary, AI code review, LOC, lint disables,
\* complexity, security scan, aggregation, reconciliation: every step is
\* followed by the next one of that order or by a failure exit, the checks
\* that have run are exactly those of the earlier steps (so both AI text
\* calls precede the local metric extractors), aggregation happens after
\* every check has finished and reconciliation is the last step, after
\* whose start no result of the analysis changes.
C39_StepsInCodeOrder ==
  /\ [](/\ OnOrder(hpc) => ran = Before(hpc)
        /\ report.kind = "rating" => hpc = "exit0" /\ ran = features
        /\ (ran \cap LocalExtractors # {}) => AiTextChecks \subseteq ran
        /\ AggregatesLast
        /\ ReconcilesLast)
  /\ [][/\ hpc' # hpc
           => \/ hpc' \in {"diff_post", "error_post", "exit1"}
              \/ hpc \in {"post", "diff_post"} /\ hpc' = "exit0"
              \/ OnOrder(hpc) /\ OnOrder(hpc') /\ Pos(hpc') = Pos(hpc) + 1
        /\ rating_score' # rating_score => hpc = "rating" /\ ran = features
        /\ runs["p1"] > 0 => pipelineVars' = pipelineVars]_vars

\* the AI summary has been produced and no metric extractor has run yet
C39_Witness ==
  /\ hpc = "review"
  /\ ran = {"ai_summary"}
  /\ summary_success

\* a whole run: every check ran, then the rating, then the reconciliation
C39_WitnessWholeRun ==
  /\ hpc = "exit0"
  /\ report.kind = "rating"
  /\ ran = Checks
  /\ pc["p1"] = "done"
  /\ Len(ops["p1"]) > 0

\* the numbers of the diff lines that are definition signatures, in diff
\* order
RECURSIVE DefLinesFrom(_, _)
DefLinesFrom(diff_lines, k) ==
  IF k > Len(diff_lines) THEN <<>>
  ELSE IF DefMatch(RawLine(diff_lines[k])).ok
  THEN <<k>> \o DefLinesFrom(diff_lines, k + 1)
  ELSE DefLinesFrom(diff_lines, k + 1)

\* a line that can close a block: kept, not blank, at column 0, neither a
\* signature nor starting with "def"
ClosingShape(line) ==
  LET raw_line == RawLine(line)
  IN /\ ~StartsWith(line, <<"-">>)
     /\ Strip(raw_line) # <<>>
     /\ LeadingSpaces(raw_line) = 0
     /\ ~DefMatch(raw_line).ok
     /\ ~StartsWith(Strip(raw_line), KW_DEF)

C40_WitnessNextDefinition ==
  /\ cc_pc = "done"
  /\ cc_readable
  /\ Len(cc_ret.functions) = 2
  /\ cc_ret.functions[1].from = <<1, 2>>
  /\ cc_ret.functions[2].from = <<3>>

====
